---------------------------- MODULE Spec2Model ----------------------------
(***************************************************************************)
(* A model of the Kconfiglib evaluation engine exercised by testsuite.py:  *)
(* typed symbol values, the tri-state expression evaluator, lazily cached  *)
(* symbol values and visibilities with invalidation, choices, int/hex      *)
(* ranges and the .config reader and writer.                               *)
(*                                                                         *)
(* Python strings are sequences of one-character strings, so that parsing  *)
(* a number, formatting one and escaping a string are computed character   *)
(* by character.  The tri-state values "n", "m", "y" are the strings       *)
(* <<"n">>, <<"m">>, <<"y">>; inside the evaluator they are 0, 1, 2.       *)
(***************************************************************************)
EXTENDS Integers, Sequences, FiniteSets, TLC

VARIABLES
    kconf,          \* the Kconfig file the Config instance was built from
    user_val,       \* Symbol.user_val of every defined symbol (None: no user value)
    cached_val,     \* Symbol.cached_val (None: not cached)
    cached_vis,     \* Symbol.cached_visibility (None: not cached)
    ch_user_val,    \* Choice.user_val: the member the user selected, or Nil
    ch_user_mode,   \* Choice.user_mode: the mode the user asked for, or None
    ch_cached_sel,  \* Choice.cached_selection (Nil: not cached, NoSel: cached "no selection")
    ch_cached_vis,  \* Choice.cached_visibility (None: not cached)
    conf_file,      \* the .config file most recently written by write_config,
                    \* with the value every symbol had when it was written
    last            \* the most recent mutating call and how it ended

vars == <<kconf, user_val, cached_val, cached_vis, ch_user_val, ch_user_mode,
          ch_cached_sel, ch_cached_vis, conf_file, last>>

----------------------------------------------------------------------------
(* Strings *)

\* Python's None: a value different from every string (a string's elements
\* are single characters, "None" is not one).
None == <<"None">>

\* None where a symbol is expected: symbols are identified by their names.
Nil == ""

\* The sentinel Choice caches for "no selection".
NoSel == "NO_SELECTION"

BSL == "\\"
DQ == "\""
SQ == "'"

N == <<"n">>
M == <<"m">>
Y == <<"y">>

\* s[i..] (Python s[i-1:]) and s[..i]
Drop(s, k) == SubSeq(s, k + 1, Len(s))
Take(s, k) == SubSeq(s, 1, k)

StartsWith(s, p) == Len(s) >= Len(p) /\ Take(s, Len(p)) = p

\* Python str.replace(old, new): leftmost non-overlapping occurrences, left to right.
RECURSIVE Replace(_, _, _)
Replace(s, old, new) ==
    IF s = <<>> THEN <<>>
    ELSE IF StartsWith(s, old) THEN new \o Replace(Drop(s, Len(old)), old, new)
    ELSE <<Head(s)>> \o Replace(Tail(s), old, new)

\* Byte-wise lexicographic order of two strings (Python's < on str).  The
\* characters the model uses are ordered by CharOrd.
CharOrd(c) ==
    CASE c = "-" -> 1
      [] c = "0" -> 2  [] c = "1" -> 3  [] c = "2" -> 4  [] c = "3" -> 5
      [] c = "4" -> 6  [] c = "5" -> 7  [] c = "6" -> 8  [] c = "7" -> 9
      [] c = "8" -> 10 [] c = "9" -> 11
      [] c = "a" -> 20 [] c = "b" -> 21 [] c = "c" -> 22 [] c = "d" -> 23
      [] c = "e" -> 24 [] c = "f" -> 25
      [] OTHER -> 30

RECURSIVE StrLess(_, _)
StrLess(a, b) ==
    IF b = <<>> THEN FALSE
    ELSE IF a = <<>> THEN TRUE
    ELSE IF Head(a) = Head(b) THEN StrLess(Tail(a), Tail(b))
    ELSE CharOrd(Head(a)) < CharOrd(Head(b))

----------------------------------------------------------------------------
(* Numbers: int(s, base), str(n), hex(n) *)

HexDigits == <<"0", "1", "2", "3", "4", "5", "6", "7", "8", "9",
               "a", "b", "c", "d", "e", "f">>

\* The value of digit character c, or 99 when c is no digit.
DigitVal(c) ==
    IF \E i \in 1..16 : HexDigits[i] = c
    THEN (CHOOSE i \in 1..16 : HexDigits[i] = c) - 1
    ELSE 99

\* The digits of a numeric literal: the text after an optional sign and, in
\* base 16, after an optional 0x.
Unsigned(s) == IF s # <<>> /\ Head(s) \in {"-", "+"} THEN Tail(s) ELSE s
Digits(s, base) ==
    LET u == Unsigned(s)
    IN  IF base = 16 /\ StartsWith(u, <<"0", "x">>) THEN Drop(u, 2) ELSE u

\* _is_base_n(s, n): whether int(s, n) succeeds.
IsBaseN(s, base) ==
    LET d == Digits(s, base)
    IN  /\ s # None
        /\ d # <<>>
        /\ \A i \in 1..Len(d) : DigitVal(d[i]) < base

RECURSIVE DigitsValue(_, _)
DigitsValue(d, base) ==
    IF d = <<>> THEN 0
    ELSE DigitsValue(Take(d, Len(d) - 1), base) * base + DigitVal(d[Len(d)])

\* int(s, base), for s with IsBaseN(s, base)
ParseInt(s, base) ==
    LET v == DigitsValue(Digits(s, base), base)
    IN  IF s # <<>> /\ Head(s) = "-" THEN 0 - v ELSE v

RECURSIVE NatDigits(_, _)
NatDigits(n, base) ==
    IF n < base THEN <<HexDigits[n + 1]>>
    ELSE NatDigits(n \div base, base) \o <<HexDigits[(n % base) + 1]>>

\* str(n)
StrInt(n) == IF n < 0 THEN <<"-">> \o NatDigits(0 - n, 10) ELSE NatDigits(n, 10)

\* hex(n): "0x.." with the sign in front
HexInt(n) ==
    IF n < 0 THEN <<"-", "0", "x">> \o NatDigits(0 - n, 16)
    ELSE <<"0", "x">> \o NatDigits(n, 16)

----------------------------------------------------------------------------
(* Tri-state values *)

TriNum(v) == IF v = Y THEN 2 ELSE IF v = M THEN 1 ELSE 0
TriStr(t) == IF t = 2 THEN Y ELSE IF t = 1 THEN M ELSE N

Min(a, b) == IF a <= b THEN a ELSE b
Max(a, b) == IF a >= b THEN a ELSE b


----------------------------------------------------------------------------
(* The symbol graph a Config instance holds *)

\* Expression trees.  An atom is a reference to a defined symbol or a
\* constant (a literal or an undefined symbol, whose value is its own name).
Ref(name) == <<"sym", name>>
Const(str) == <<"const", str>>
And(a, b) == <<"and", a, b>>
Or(a, b) == <<"or", a, b>>

ConstN == Const(N)
ConstM == Const(M)
ConstY == Const(Y)

RelOps == {"=", "!=", "<", "<=", ">", ">="}

\* A symbol as the parser leaves it.  prompts: the condition of each prompt
\* (with the dependencies of enclosing menus and ifs already and-ed in);
\* def_exprs: <<value, condition>> per default; ranges: <<low, high,
\* condition>> per range; rev_dep / weak_rev_dep: the or of "selector &&
\* condition" over the selects / implies that target the symbol; choice: the
\* name of the choice the symbol is a member of, "" for none.
Symbol(type, prompts, def_exprs, ranges, rev_dep, weak_rev_dep, choice) ==
    [type |-> type, prompts |-> prompts, def_exprs |-> def_exprs,
     ranges |-> ranges, rev_dep |-> rev_dep, weak_rev_dep |-> weak_rev_dep,
     choice |-> choice]

\* A choice: its type, whether it is optional, its prompt conditions, its
\* defaults <<member, condition>> and its members in declaration order.
Choice(type, optional, prompts, def_exprs, syms) ==
    [type |-> type, optional |-> optional, prompts |-> prompts,
     def_exprs |-> def_exprs, syms |-> syms]

\* Shorthands for the declarations the test Kconfig files use
Plain(type, prompts, def_exprs) ==
    Symbol(type, prompts, def_exprs, <<>>, ConstN, ConstN, "")
Ranged(type, prompts, def_exprs, ranges) ==
    Symbol(type, prompts, def_exprs, ranges, ConstN, ConstN, "")
Selected(type, prompts, def_exprs, rev_dep) ==
    Symbol(type, prompts, def_exprs, <<>>, rev_dep, ConstN, "")
Member(type, prompts, choice) ==
    Symbol(type, prompts, <<>>, <<>>, ConstN, ConstN, choice)

Range(s) == {s[i] : i \in 1..Len(s)}

\* A menu or a comment: its kind and its "depends on" expression (with the
\* dependencies of enclosing menus and ifs and-ed in)
Item(kind, dep) == [kind |-> kind, dep |-> dep]

\* The lines of a .config file: an assignment NAME=text, and "# NAME is not set"
SetLine(name, text) == [kind |-> "set", name |-> name, val |-> text]
UnsetLine(name) == [kind |-> "unset", name |-> name, val |-> <<>>]


NoChoices == [c \in {} |-> Choice("bool", FALSE, <<>>, <<>>, <<>>)]

----------------------------------------------------------------------------
(* The Kconfig files of the test suite.  Symbols of one file that share no  *)
(* dependency do not influence each other, so a Config instance is built    *)
(* from one part of a file: symbols (and choices) closed under reference.   *)

S10 == <<"1", "0">>
S15 == <<"1", "5">>
S20 == <<"2", "0">>
S40 == <<"4", "0">>
X10 == <<"0", "x", "1", "0">>
X20 == <<"0", "x", "2", "0">>

R_10_20 == <<<<Const(S10), Const(S20), ConstY>>>>
RX_10_20 == <<<<Const(X10), Const(X20), ConstY>>>>

\* tests/Krange
Krange ==
    ("INT_RANGE_10_20_LOW_DEFAULT" :>
         Ranged("int", <<ConstY>>, <<<<Const(<<"9">>), ConstY>>>>, R_10_20)) @@
    ("HEX_RANGE_10_20_HIGH_DEFAULT" :>
         Ranged("hex", <<ConstY>>, <<<<Const(<<"0", "x", "2", "1">>), ConstY>>>>,
                RX_10_20)) @@
    ("HEX_RANGE_10_20_OK_DEFAULT_ALTERNATE" :>
         Ranged("hex", <<ConstY>>, <<<<Const(S15), ConstY>>>>, RX_10_20)) @@
    ("HEX_RANGE_10_20" :> Ranged("hex", <<ConstY>>, <<>>, RX_10_20)) @@
    ("INT_RANGE_10_20" :> Ranged("int", <<ConstY>>, <<>>, R_10_20)) @@
    ("INT_RANGE_0_10" :>
         Ranged("int", <<ConstY>>, <<>>, <<<<Const(<<"0">>), Const(S10), ConstY>>>>)) @@
    ("INT_RANGE_NEG_10_10" :>
         Ranged("int", <<ConstY>>, <<>>,
                <<<<Const(<<"-", "1", "0">>), Const(S10), ConstY>>>>)) @@
    ("INT_ALL_RANGES_DISABLED" :>
         Ranged("int", <<ConstY>>, <<>>,
                <<<<Const(S10), Const(S20), ConstN>>,
                  <<Const(S10), Const(S15), ConstN>>>>)) @@
    ("INT_NO_RANGE" :> Plain("int", <<ConstY>>, <<>>)) @@
    ("INT_40" :> Plain("int", <<>>, <<<<Const(S40), ConstY>>>>)) @@
    ("INT_RANGE_10_40_DEPENDENT" :>
         Ranged("int", <<ConstY>>, <<>>,
                <<<<Ref("INT_RANGE_10_20"), Ref("INT_40"), ConstY>>>>))

\* The symbol that enables modules
Modules == "MODULES" :> Plain("bool", <<ConstY>>, <<>>)

\* tests/Kvisibility: MOD is m (y without modules); a prompt "if m" and a
\* prompt "if MOD"
Kvisibility ==
    Modules @@
    ("MOD" :> Plain("tristate", <<>>, <<<<ConstM, ConstY>>>>)) @@
    ("BOOL_m" :> Plain("bool", <<ConstM>>, <<>>)) @@
    ("TRISTATE_m" :> Plain("tristate", <<ConstM>>, <<>>)) @@
    ("BOOL_MOD" :> Plain("bool", <<Ref("MOD")>>, <<>>)) @@
    ("TRISTATE_MOD" :> Plain("tristate", <<Ref("MOD")>>, <<>>)) @@
    ("NO_PROMPT" :> Plain("bool", <<>>, <<>>)) @@
    ("BOOL_if_m" :> Plain("bool", <<And(ConstY, ConstM)>>, <<>>)) @@
    ("TRISTATE_if_m" :> Plain("tristate", <<And(ConstY, ConstM)>>, <<>>)) @@
    ("BOOL_choice_m" :> Member("bool", <<ConstY>>, "BOOL_CHOICE_m")) @@
    ("TRISTATE_choice_m" :> Member("tristate", <<ConstY>>, "TRISTATE_CHOICE_m"))

\* ... its choices "if m"
KvisibilityChoices ==
    ("BOOL_CHOICE_m" :> Choice("bool", FALSE, <<ConstM>>, <<>>, <<"BOOL_choice_m">>)) @@
    ("TRISTATE_CHOICE_m" :>
         Choice("tristate", FALSE, <<ConstM>>, <<>>, <<"TRISTATE_choice_m">>))

\* ... and its menus and comments, by title
KvisibilityItems ==
    ("menu m" :> Item("menu", ConstM)) @@
    ("menu y" :> Item("menu", ConstY)) @@
    ("menu if m and y" :> Item("menu", And(ConstM, ConstY))) @@
    ("comment m" :> Item("comment", ConstM)) @@
    ("comment if y" :> Item("comment", And(ConstY, ConstY))) @@
    ("comment m nested" :> Item("comment", And(ConstY, And(ConstM, ConstY))))

\* tests/Kchoice, with the members of DEFAULTS that the test suite names
Kchoice ==
    Modules @@
    ("B_1" :> Member("bool", <<ConstY>>, "BOOL")) @@
    ("B_2" :> Member("bool", <<ConstY>>, "BOOL")) @@
    ("BO_1" :> Member("bool", <<ConstY>>, "BOOL_OPT")) @@
    ("BO_2" :> Member("bool", <<ConstY>>, "BOOL_OPT")) @@
    ("T_1" :> Member("tristate", <<ConstY>>, "TRISTATE")) @@
    ("T_2" :> Member("tristate", <<ConstY>>, "TRISTATE")) @@
    ("TO_1" :> Member("tristate", <<ConstY>>, "TRISTATE_OPT")) @@
    ("TO_2" :> Member("tristate", <<ConstY>>, "TRISTATE_OPT")) @@
    ("BM_1" :> Member("bool", <<ConstY>>, "BOOL_M")) @@
    ("BM_2" :> Member("bool", <<ConstY>>, "BOOL_M")) @@
    ("TM_1" :> Member("tristate", <<ConstY>>, "TRISTATE_M")) @@
    ("TM_2" :> Member("tristate", <<ConstY>>, "TRISTATE_M")) @@
    ("TRISTATE_SYM" :> Plain("tristate", <<ConstY>>, <<>>)) @@
    ("OPT_1" :> Member("bool", <<ConstY>>, "DEFAULTS")) @@
    ("OPT_2" :> Member("bool", <<ConstY>>, "DEFAULTS")) @@
    ("OPT_4" :> Member("bool", <<ConstY>>, "DEFAULTS"))

KchoiceChoices ==
    ("BOOL" :> Choice("bool", FALSE, <<ConstY>>, <<>>, <<"B_1", "B_2">>)) @@
    ("BOOL_OPT" :> Choice("bool", TRUE, <<ConstY>>, <<>>, <<"BO_1", "BO_2">>)) @@
    ("TRISTATE" :> Choice("tristate", FALSE, <<ConstY>>, <<>>, <<"T_1", "T_2">>)) @@
    ("TRISTATE_OPT" :>
         Choice("tristate", TRUE, <<ConstY>>, <<>>, <<"TO_1", "TO_2">>)) @@
    ("BOOL_M" :> Choice("bool", FALSE, <<ConstM>>, <<>>, <<"BM_1", "BM_2">>)) @@
    ("TRISTATE_M" :>
         Choice("tristate", FALSE, <<ConstM>>, <<>>, <<"TM_1", "TM_2">>)) @@
    ("DEFAULTS" :>
         Choice("bool", FALSE, <<ConstY>>,
                <<<<"OPT_1", ConstN>>, <<"OPT_2", Ref("TRISTATE_SYM")>>,
                  <<"OPT_4", ConstY>>>>,
                <<"OPT_1", "OPT_2", "OPT_4">>))

\* tests/Kmisc: one symbol of every type
Kmisc ==
    ("BOOL" :> Plain("bool", <<ConstY>>, <<>>)) @@
    ("TRISTATE" :> Plain("tristate", <<ConstY>>, <<>>)) @@
    ("STRING" :> Plain("string", <<ConstY>>, <<>>)) @@
    ("INT" :> Plain("int", <<ConstY>>, <<>>)) @@
    ("HEX" :> Plain("hex", <<ConstY>>, <<>>))

\* tests/Kappend
Kappend ==
    ("BOOL" :> Plain("bool", <<ConstY>>, <<>>)) @@
    ("STRING" :> Plain("string", <<ConstY>>, <<>>))

\* tests/Kescape: the default of STRING is a double quote and a backslash
Kescape ==
    "STRING" :> Plain("string", <<ConstY>>, <<<<Const(<<DQ, BSL>>), ConstY>>>>)

\* tests/Kmodifiable: the symbols the tests ask is_modifiable() of, with the
\* symbols that select them, and a tristate without prompt that M_SELECTOR
\* selects if MODULES
Kmodifiable ==
    ("MODULES" :> Plain("bool", <<ConstY>>, <<<<ConstY, ConstY>>>>)) @@
    ("Y_SELECTOR" :> Plain("tristate", <<ConstY>>, <<<<ConstY, ConstY>>>>)) @@
    ("M_SELECTOR" :> Plain("tristate", <<ConstY>>, <<<<ConstM, ConstY>>>>)) @@
    ("VISIBLE" :> Plain("bool", <<ConstY>>, <<>>)) @@
    ("NOT_VISIBLE" :> Plain("bool", <<>>, <<>>)) @@
    ("SELECTED_TO_Y" :> Selected("tristate", <<ConstY>>, <<>>, Ref("Y_SELECTOR"))) @@
    ("BOOL_SELECTED_TO_M" :> Selected("bool", <<ConstY>>, <<>>, Ref("M_SELECTOR"))) @@
    ("TRISTATE_SELECTED_TO_M" :>
         Selected("tristate", <<ConstY>>, <<>>, Ref("M_SELECTOR"))) @@
    ("M_VISIBLE_TRISTATE_SELECTED_TO_M" :>
         Selected("tristate", <<ConstM>>, <<>>, Ref("M_SELECTOR"))) @@
    ("HIDDEN_SELECTED" :>
         Selected("tristate", <<>>, <<>>, And(Ref("M_SELECTOR"), Ref("MODULES"))))

Oops == <<"o", "o", "p", "s">>
S37 == <<"3", "7">>
X37 == <<"0", "x", "3", "7">>

\* tests/Keval: tristate symbols of value n, m and y, a string symbol of
\* value "y", an int symbol of value 37, and hex symbols of value 0x37 and 37
Keval ==
    Modules @@
    ("N" :> Plain("tristate", <<>>, <<<<ConstN, ConstY>>>>)) @@
    ("M" :> Plain("tristate", <<>>, <<<<ConstM, ConstY>>>>)) @@
    ("Y" :> Plain("tristate", <<>>, <<<<ConstY, ConstY>>>>)) @@
    ("Y_STRING" :> Plain("string", <<>>, <<<<Const(Y), ConstY>>>>)) @@
    ("INT_37" :> Plain("int", <<>>, <<<<Const(S37), ConstY>>>>)) @@
    ("HEX_0X37" :> Plain("hex", <<>>, <<<<Const(X37), ConstY>>>>)) @@
    ("HEX_37" :> Plain("hex", <<>>, <<<<Const(S37), ConstY>>>>))

\* tests/Kdep: a symbol D and symbols that read it in a prompt condition, in
\* the condition and the value of a default, in a range, and through a
\* select and an imply of D; a symbol that reads one of these; and a choice
\* whose prompt depends on S
Kdep ==
    ("D" :> Plain("bool", <<ConstY>>, <<>>)) @@
    ("D1" :> Plain("bool", <<Ref("D")>>, <<>>)) @@
    ("D2" :> Plain("bool", <<>>, <<<<ConstY, Ref("D")>>>>)) @@
    ("D3" :> Plain("tristate", <<>>, <<<<Ref("D"), ConstY>>>>)) @@
    ("D4" :> Ranged("int", <<ConstY>>, <<>>, <<<<Const(S10), Const(S20), Ref("D")>>>>)) @@
    ("D5" :> Selected("bool", <<>>, <<>>, Ref("D"))) @@
    ("D6" :> Symbol("bool", <<>>, <<>>, <<>>, ConstN, Ref("D"), "")) @@
    ("D7" :> Plain("bool", <<>>, <<<<ConstY, Ref("D1")>>>>)) @@
    ("S" :> Plain("bool", <<ConstY>>, <<>>)) @@
    ("A" :> Member("bool", <<ConstY>>, "ABC")) @@
    ("B" :> Member("bool", <<ConstY>>, "ABC")) @@
    ("C" :> Member("bool", <<ConstY>>, "ABC"))

KdepChoices ==
    "ABC" :> Choice("bool", FALSE, <<Ref("S")>>, <<>>, <<"A", "B", "C">>)

\* The number of symbols of the chain of tests/Kchain that are kept
ChainLen == 5

ChainNames ==
    <<"CHAIN_1", "CHAIN_2", "CHAIN_3", "CHAIN_4", "CHAIN_5", "CHAIN_6",
      "CHAIN_7", "CHAIN_8", "CHAIN_9", "CHAIN_10", "CHAIN_11", "CHAIN_12",
      "CHAIN_13", "CHAIN_14", "CHAIN_15", "CHAIN_16", "CHAIN_17", "CHAIN_18",
      "CHAIN_19", "CHAIN_20", "CHAIN_21", "CHAIN_22", "CHAIN_23", "CHAIN_24",
      "CHAIN_25", "CHAIN_26">>

\* The symbols of the chain that are kept: the first ones
Chain == Take(ChainNames, ChainLen)

\* The i-th symbol of the chain reads the one before it: in its prompt
\* condition, in a default, or through a select
ChainSym(i) ==
    IF i = 1 THEN Plain("bool", <<ConstY>>, <<>>)
    ELSE IF i % 3 = 2 THEN Plain("bool", <<Ref(ChainNames[i - 1])>>, <<>>)
    ELSE IF i % 3 = 0 THEN Plain("tristate", <<>>, <<<<Ref(ChainNames[i - 1]), ConstY>>>>)
    ELSE Selected("tristate", <<>>, <<>>, Ref(ChainNames[i - 1]))

\* tests/Kchain
Kchain ==
    [s \in Range(Chain) |-> ChainSym(CHOOSE i \in 1..ChainLen : ChainNames[i] = s)]

\* A constant n, m or y: a tristate symbol no Kconfig file declares
Special == Symbol("tristate", <<>>, <<>>, <<>>, ConstN, ConstN, "")

\* A symbol with a prompt that another symbol implies
Implied(type, weak_rev_dep) ==
    Symbol(type, <<ConstY>>, <<>>, <<>>, ConstN, weak_rev_dep, "")

\* tests/Kbounds: symbols whose prompt is visible to y or to m, symbols
\* selected or implied by a symbol of value n, m or y, a symbol of every
\* other type, and the three constants
Kbounds ==
    ("MODULES" :> Plain("bool", <<ConstY>>, <<<<ConstY, ConstY>>>>)) @@
    ("n" :> Special) @@ ("m" :> Special) @@ ("y" :> Special) @@
    ("N_SETTER" :> Plain("tristate", <<ConstY>>, <<<<ConstN, ConstY>>>>)) @@
    ("M_SETTER" :> Plain("tristate", <<ConstY>>, <<<<ConstM, ConstY>>>>)) @@
    ("Y_SETTER" :> Plain("tristate", <<ConstY>>, <<<<ConstY, ConstY>>>>)) @@
    ("Y_VISIBLE_BOOL" :> Plain("bool", <<ConstY>>, <<>>)) @@
    ("Y_VISIBLE_TRISTATE" :> Plain("tristate", <<ConstY>>, <<>>)) @@
    ("M_VISIBLE_BOOL" :> Plain("bool", <<ConstM>>, <<>>)) @@
    ("M_VISIBLE_TRISTATE" :> Plain("tristate", <<ConstM>>, <<>>)) @@
    ("Y_SELECTED_BOOL" :> Selected("bool", <<ConstY>>, <<>>, Ref("Y_SETTER"))) @@
    ("M_SELECTED_BOOL" :> Selected("bool", <<ConstY>>, <<>>, Ref("M_SETTER"))) @@
    ("Y_SELECTED_TRISTATE" :>
         Selected("tristate", <<ConstY>>, <<>>, Ref("Y_SETTER"))) @@
    ("M_SELECTED_TRISTATE" :>
         Selected("tristate", <<ConstY>>, <<>>, Ref("M_SETTER"))) @@
    ("M_SELECTED_M_VISIBLE_TRISTATE" :>
         Selected("tristate", <<ConstM>>, <<>>, Ref("M_SETTER"))) @@
    ("N_IMPLIED_BOOL" :> Implied("bool", Ref("N_SETTER"))) @@
    ("N_IMPLIED_TRISTATE" :> Implied("tristate", Ref("N_SETTER"))) @@
    ("M_IMPLIED_BOOL" :> Implied("bool", Ref("M_SETTER"))) @@
    ("M_IMPLIED_TRISTATE" :> Implied("tristate", Ref("M_SETTER"))) @@
    ("Y_IMPLIED_BOOL" :> Implied("bool", Ref("Y_SETTER"))) @@
    ("Y_IMPLIED_TRISTATE" :> Implied("tristate", Ref("Y_SETTER"))) @@
    ("STRING" :> Plain("string", <<ConstY>>, <<>>)) @@
    ("INT" :> Plain("int", <<ConstY>>, <<>>)) @@
    ("HEX" :> Plain("hex", <<ConstY>>, <<>>))

\* The symbols and the choices a Kconfig file declares
FileSyms(file) ==
    CASE file = "Krange" -> Krange
      [] file = "Kvisibility" -> Kvisibility
      [] file = "Kchoice" -> Kchoice
      [] file = "Kmisc" -> Kmisc
      [] file = "Kappend" -> Kappend
      [] file = "Kescape" -> Kescape
      [] file = "Kmodifiable" -> Kmodifiable
      [] file = "Keval" -> Keval
      [] file = "Kdep" -> Kdep
      [] file = "Kbounds" -> Kbounds
      [] file = "Kchain" -> Kchain

FileChoices(file) ==
    CASE file = "Kchoice" -> KchoiceChoices
      [] file = "Kvisibility" -> KvisibilityChoices
      [] file = "Kdep" -> KdepChoices
      [] OTHER -> NoChoices

\* A part of a file: the names of its symbols and of its choices in
\* declaration order, and their declarations
Part(file, syms, choices) ==
    [file |-> file, syms |-> syms, choices |-> choices,
     sym |-> [s \in Range(syms) |-> FileSyms(file)[s]],
     choice |-> [ch \in Range(choices) |-> FileChoices(file)[ch]],
     item |-> [i \in {} |-> Item("menu", ConstY)]]

\* The parts of tests/Krange: every symbol alone, and the symbol whose range
\* is given by two other symbols with them
KrangeDependent ==
    Part("Krange", <<"INT_RANGE_10_20", "INT_40", "INT_RANGE_10_40_DEPENDENT">>, <<>>)

KrangeParts ==
    {Part("Krange", <<s>>, <<>>) :
        s \in {"INT_RANGE_10_20_LOW_DEFAULT", "HEX_RANGE_10_20_HIGH_DEFAULT",
               "HEX_RANGE_10_20_OK_DEFAULT_ALTERNATE", "HEX_RANGE_10_20",
               "INT_RANGE_0_10", "INT_RANGE_NEG_10_10", "INT_ALL_RANGES_DISABLED",
               "INT_NO_RANGE"}}
    \cup {KrangeDependent}

\* The parts of tests/Kvisibility: a symbol with MODULES and with what its
\* prompt depends on
KvisibilityParts ==
    {Part("Kvisibility", <<"MODULES", s>>, <<>>) : s \in {"BOOL_m", "TRISTATE_m"}}
    \cup {Part("Kvisibility", <<"MODULES", "MOD", s>>, <<>>) :
              s \in {"BOOL_MOD", "TRISTATE_MOD"}}

\* The further parts of tests/Kvisibility whose visibility the tests ask for:
\* the symbol without prompt and the symbols inside "if m", the members of
\* the choices "if m", and the menus and comments
KvisibilityQueryParts ==
    {Part("Kvisibility", <<"MODULES", s>>, <<>>) :
        s \in {"NO_PROMPT", "BOOL_if_m", "TRISTATE_if_m"}}
    \cup {Part("Kvisibility", <<"MODULES", "BOOL_choice_m">>, <<"BOOL_CHOICE_m">>),
          Part("Kvisibility", <<"MODULES", "TRISTATE_choice_m">>,
               <<"TRISTATE_CHOICE_m">>),
          [Part("Kvisibility", <<"MODULES">>, <<>>) EXCEPT !.item = KvisibilityItems]}

\* The parts of tests/Kchoice: a choice with its members and MODULES, and
\* DEFAULTS also with the symbol its defaults depend on
KchoiceParts ==
    {Part("Kchoice", <<"MODULES", "B_1", "B_2">>, <<"BOOL">>),
     Part("Kchoice", <<"MODULES", "BO_1", "BO_2">>, <<"BOOL_OPT">>),
     Part("Kchoice", <<"MODULES", "T_1", "T_2">>, <<"TRISTATE">>),
     Part("Kchoice", <<"MODULES", "TO_1", "TO_2">>, <<"TRISTATE_OPT">>),
     Part("Kchoice", <<"MODULES", "BM_1", "BM_2">>, <<"BOOL_M">>),
     Part("Kchoice", <<"MODULES", "TM_1", "TM_2">>, <<"TRISTATE_M">>),
     Part("Kchoice", <<"MODULES", "TRISTATE_SYM", "OPT_1", "OPT_2", "OPT_4">>,
          <<"DEFAULTS">>)}

\* The parts of tests/Kmisc: every symbol alone
KmiscParts ==
    {Part("Kmisc", <<s>>, <<>>) : s \in {"BOOL", "TRISTATE", "STRING", "INT", "HEX"}}

KappendParts == {Part("Kappend", <<"BOOL", "STRING">>, <<>>)}

KescapeParts == {Part("Kescape", <<"STRING">>, <<>>)}

\* The parts of tests/Kmodifiable: the two symbols that nothing selects, and
\* every selected symbol with its selector
KmodifiableParts ==
    {Part("Kmodifiable", <<"MODULES", "VISIBLE", "NOT_VISIBLE">>, <<>>),
     Part("Kmodifiable", <<"MODULES", "Y_SELECTOR", "SELECTED_TO_Y">>, <<>>)}
    \cup {Part("Kmodifiable", <<"MODULES", "M_SELECTOR", s>>, <<>>) :
              s \in {"BOOL_SELECTED_TO_M", "TRISTATE_SELECTED_TO_M",
                     "M_VISIBLE_TRISTATE_SELECTED_TO_M", "HIDDEN_SELECTED"}}

\* The parts of tests/Keval: the tristate symbols, the string symbol, the
\* int symbol with the hex symbol it is compared with, and the hex symbol
\* whose value has no 0x
KevalParts ==
    {Part("Keval", <<"MODULES", "N", "M", "Y">>, <<>>),
     Part("Keval", <<"MODULES", "Y_STRING">>, <<>>),
     Part("Keval", <<"MODULES", "INT_37", "HEX_0X37">>, <<>>),
     Part("Keval", <<"MODULES", "HEX_37">>, <<>>)}

\* The parts of tests/Kdep: D with the symbols that read it, and the choice
\* with S; and the chain of tests/Kchain
KdepParts ==
    {Part("Kdep", <<"D", "D1", "D2", "D3", "D4", "D5", "D6", "D7">>, <<>>),
     Part("Kdep", <<"S", "A", "B", "C">>, <<"ABC">>),
     Part("Kchain", Chain, <<>>)}

\* The parts of tests/Kbounds: the constants, the symbols that nothing
\* selects or implies, and every selected or implied symbol with the symbol
\* that selects or implies it
KboundsParts ==
    {Part("Kbounds", <<"MODULES", "n", "m", "y", "Y_VISIBLE_TRISTATE">>, <<>>)}
    \cup {Part("Kbounds", <<"MODULES", s>>, <<>>) :
              s \in {"Y_VISIBLE_BOOL", "M_VISIBLE_BOOL", "M_VISIBLE_TRISTATE",
                     "STRING", "INT", "HEX"}}
    \cup {Part("Kbounds", <<"MODULES", "Y_SETTER", s>>, <<>>) :
              s \in {"Y_SELECTED_BOOL", "Y_SELECTED_TRISTATE", "Y_IMPLIED_BOOL",
                     "Y_IMPLIED_TRISTATE"}}
    \cup {Part("Kbounds", <<"MODULES", "M_SETTER", s>>, <<>>) :
              s \in {"M_SELECTED_BOOL", "M_SELECTED_TRISTATE",
                     "M_SELECTED_M_VISIBLE_TRISTATE", "M_IMPLIED_BOOL",
                     "M_IMPLIED_TRISTATE"}}
    \cup {Part("Kbounds", <<"MODULES", "N_SETTER", s>>, <<>>) :
              s \in {"N_IMPLIED_BOOL", "N_IMPLIED_TRISTATE"}}

\* Two instances c1 and c2 made from tests/Kmisc: a bool symbol, a choice of
\* two bool symbols, a menu and a comment. An object of c2 is written with /2.
Instances == {"c1", "c2"}

Second ==
    [BOOL |-> "BOOL/2", OPT_A |-> "OPT_A/2", OPT_B |-> "OPT_B/2",
     CHOICE |-> "CHOICE/2", menu |-> "menu/2", comment |-> "comment/2"]

\* c[name], and the other objects of c by their name
Object(c, name) == IF c = "c1" THEN name ELSE Second[name]

\* Every instance registers its own objects
ObjectsOf(c) == {Object(c, name) : name \in DOMAIN Second}

KmiscOf(c) ==
    (Object(c, "BOOL") :> Plain("bool", <<ConstY>>, <<>>)) @@
    (Object(c, "OPT_A") :> Member("bool", <<ConstY>>, Object(c, "CHOICE"))) @@
    (Object(c, "OPT_B") :> Member("bool", <<ConstY>>, Object(c, "CHOICE")))

KmiscChoiceOf(c) ==
    Object(c, "CHOICE") :>
        Choice("bool", FALSE, <<ConstY>>, <<>>, <<Object(c, "OPT_A"), Object(c, "OPT_B")>>)

KmiscItemsOf(c) ==
    (Object(c, "menu") :> Item("menu", ConstY)) @@
    (Object(c, "comment") :> Item("comment", ConstY))

\* c1 = Config("Kmisc") and c2 = Config("Kmisc")
TwoConfigs ==
    [file |-> "Kmisc",
     syms |-> <<"BOOL", "OPT_A", "OPT_B", "BOOL/2", "OPT_A/2", "OPT_B/2">>,
     choices |-> <<"CHOICE", "CHOICE/2">>,
     sym |-> KmiscOf("c1") @@ KmiscOf("c2"),
     choice |-> KmiscChoiceOf("c1") @@ KmiscChoiceOf("c2"),
     item |-> KmiscItemsOf("c1") @@ KmiscItemsOf("c2"),
     config |-> [c \in Instances |-> ObjectsOf(c)]]

\* The values the test suite assigns
S1 == <<"1">>
S9 == <<"9">>
S21 == <<"2", "1">>
S123 == <<"1", "2", "3">>
Foo == <<"f", "o", "o">>
X15 == <<"0", "x", "1", "5">>
X123 == <<"0", "x", "1", "2", "3">>

\* The longest string assigned to the string symbol of tests/Kescape
MaxStrLen == 2

\* The strings of at most n characters out of backslash, double quote and
\* single quote
Strings(n) == UNION {[1..k -> {BSL, DQ, SQ}] : k \in 0..n}

\* The assignments <<symbol, value>> made to the symbols of a file.
\* Krange: a value below, in and above each range, and a hex value with its
\* 0x; Kvisibility: modules off and on, m for the tristates and y for the
\* members of its choices; Kchoice: modules off and on, every member
\* selected, m mode, the symbol the defaults depend on; Kmisc: valid and invalid values for every type;
\* Kescape: every string; Kmodifiable: modules off and on, every tri-state
\* value for the selectors and the selected; Keval: modules off and on.
Assigned(file) ==
    CASE file = "Krange" ->
             ((DOMAIN Krange \ {"INT_40"}) \X {S9, S15, S21})
             \cup ({"HEX_RANGE_10_20_HIGH_DEFAULT", "HEX_RANGE_10_20"} \X {X15})
      [] file = "Kvisibility" ->
             ({"MODULES"} \X {N, Y}) \cup ({"TRISTATE_m", "TRISTATE_MOD"} \X {M})
             \cup ({"BOOL_choice_m", "TRISTATE_choice_m"} \X {Y})
      [] file = "Kchoice" ->
             ({"MODULES", "TRISTATE_SYM"} \X {N, Y})
             \cup ({"B_1", "B_2", "BO_1", "BO_2", "T_1", "T_2", "TO_1", "TO_2",
                    "BM_1", "BM_2", "OPT_1"} \X {Y})
             \cup ({"T_1", "T_2", "TO_1"} \X {M})
             \cup ({"TM_1", "TM_2"} \X {N, M, Y})
      [] file = "Kmisc" ->
             ({"BOOL", "TRISTATE"} \X {N, M, Y, Foo, S1})
             \cup ({"STRING"} \X {Foo})
             \cup ({"INT"} \X {S123, Foo})
             \cup ({"HEX"} \X {X123, Foo})
      [] file = "Kappend" -> {}
      [] file = "Kescape" -> {"STRING"} \X Strings(MaxStrLen)
      [] file = "Kmodifiable" ->
             ({"MODULES"} \X {N, Y})
             \cup ((DOMAIN Kmodifiable \ {"MODULES"}) \X {N, M, Y})
      [] file = "Keval" -> {"MODULES"} \X {N, Y}
      [] file = "Kdep" -> {"D", "S", "A", "B"} \X {N, Y}
      [] file = "Kbounds" ->
             ({"MODULES", "n", "m", "y"} \X {N, Y})
             \cup ({"N_SETTER", "M_SETTER", "Y_SETTER"} \X {N, M, Y})
      [] file = "Kchain" -> {"CHAIN_1"} \X {N, Y}

\* The .config files loaded into a Config of a file
ConfigFiles(file) ==
    CASE file = "Krange" ->
             {<<>>,
              <<SetLine("INT_RANGE_10_20", S15)>>,
              <<SetLine("HEX_RANGE_10_20", X15), SetLine("INT_RANGE_0_10", S21)>>}
      [] file = "Kvisibility" -> {<<>>, <<SetLine("MODULES", Y), SetLine("MOD", M)>>}
      [] file = "Kchoice" ->
             {<<>>,
              <<SetLine("MODULES", Y), SetLine("T_2", Y), SetLine("TM_1", M),
                SetLine("OPT_1", Y), UnsetLine("TRISTATE_SYM")>>}
      [] file = "Kmisc" -> {<<>>, <<SetLine("BOOL", Y), SetLine("INT", Foo)>>}
      [] file = "Kappend" ->
             {<<>>,
              <<SetLine("BOOL", Y)>>,
              <<SetLine("STRING", <<DQ>> \o Foo \o <<DQ>>)>>}
      [] file = "Kescape" -> {}
      [] file = "Kbounds" ->
             {<<SetLine("MODULES", Y), SetLine("n", Y), SetLine("y", N),
                UnsetLine("m")>>}

\* The graph of the Config instance
Syms == Range(kconf.syms)
Choices == Range(kconf.choices)
SymOf(s) == kconf.sym[s]
ChoiceOf(ch) == kconf.choice[ch]
Items == DOMAIN kconf.item
ItemOf(i) == kconf.item[i]

IsChoiceSym(s) == SymOf(s).choice # ""
IsTri(s) == SymOf(s).type \in {"bool", "tristate"}

\* The three constants a Config registers as special symbols
IsSpecial(s) == s \in {"n", "m", "y"}


----------------------------------------------------------------------------
(* Evaluation.  The caches c an evaluation may answer from are Cache, what  *)
(* the Config instance holds, or NoCache, for a from-scratch evaluation.    *)
(* A computation takes env, the answers to everything it may ask for:      *)
(* env.val[s] is get_value() of s, env.vis[s] its visibility, env.sel[ch]   *)
(* the selection of ch and env.cvis[ch] its visibility.  User values are    *)
(* read from the state.                                                     *)

Cache == [val |-> cached_val, vis |-> cached_vis,
          sel |-> ch_cached_sel, cvis |-> ch_cached_vis]

NoCache == [val |-> [s \in Syms |-> None], vis |-> [s \in Syms |-> None],
            sel |-> [ch \in Choices |-> Nil], cvis |-> [ch \in Choices |-> None]]

\* The least element of a set of numbers, other for the empty set
First(S) == CHOOSE i \in S : \A j \in S : i <= j
FirstOr(S, other) == IF S = {} THEN other ELSE First(S)

\* The greatest of a set of tri-state numbers, n for the empty set
MaxOf(S) == IF 2 \in S THEN 2 ELSE IF 1 \in S THEN 1 ELSE 0

\* The value of the modules-enabled symbol as a tri-state number (n when the
\* graph has no MODULES symbol)
ModulesVal(env) == IF "MODULES" \in Syms THEN TriNum(env.val["MODULES"]) ELSE 0

\* The promotion rule left out: m stays m without modules
PromoteNever(t, env) == t

\* The promotion rule: without modules a result of m becomes y
Promote(t, env) == IF t = 1 /\ ModulesVal(env) # 2 THEN 2 ELSE t

\* m stays m for a bool
BoolPromoteNever(t, type) == t

\* A bool has no m: it becomes y
BoolPromote(t, type) == IF t = 1 /\ type # "tristate" THEN 2 ELSE t

\* _str_val: the string an atom stands for
StrVal(a, env) == IF a[1] = "sym" THEN env.val[a[2]] ELSE a[2]

TypeOf(a) == IF a[1] = "sym" THEN SymOf(a[2]).type ELSE "unknown"

\* The type left out: every operand is hexadecimal only with a 0x marker
BaseOfMarker(type, str) ==
    IF StartsWith(Unsigned(str), <<"0", "x">>) THEN 16 ELSE 10

\* The base an operand of a comparison is read in: 16 for a hex symbol, 10
\* for an int symbol; any other operand is hexadecimal when it carries a 0x
\* marker and decimal otherwise.
BaseOf(type, str) ==
    IF type = "hex" THEN 16
    ELSE IF type = "int" THEN 10
    ELSE IF StartsWith(Unsigned(str), <<"0", "x">>) THEN 16 ELSE 10

\* Whether an operand of the type is compared as a number, and the number
IsNum(type, str) == type # "string" /\ IsBaseN(str, BaseOf(type, str))
NumOf(type, str) == ParseInt(str, BaseOf(type, str))

Sign(x, y) == IF x < y THEN 0 - 1 ELSE IF x = y THEN 0 ELSE 1

\* An operand that is no number is compared as a string, whatever the other
OrderNumbersOrStrings(sa, ta, sb, tb) ==
    IF IsNum(ta, sa) /\ IsNum(tb, sb) THEN Sign(NumOf(ta, sa), NumOf(tb, sb))
    ELSE IF sa = sb THEN 0
    ELSE IF StrLess(sa, sb) THEN 0 - 1 ELSE 1

\* How two operands compare: -1, 0, 1 for less, equal, greater.  Two numbers
\* compare by value, two strings byte-wise.  An int or hex symbol and an
\* operand that is no number are only equal (10) or different (11).
Order(sa, ta, sb, tb) ==
    IF IsNum(ta, sa) /\ IsNum(tb, sb) THEN Sign(NumOf(ta, sa), NumOf(tb, sb))
    ELSE IF ta \in {"int", "hex"} \/ tb \in {"int", "hex"}
         THEN (IF sa = sb THEN 10 ELSE 11)
    ELSE IF sa = sb THEN 0
    ELSE IF StrLess(sa, sb) THEN 0 - 1 ELSE 1

Holds(op, o) ==
    CASE op = "=" -> o \in {0, 10}
      [] op = "!=" -> o \notin {0, 10}
      [] op = "<" -> o = 0 - 1
      [] op = "<=" -> o \in {0 - 1, 0}
      [] op = ">" -> o = 1
      [] op = ">=" -> o \in {0, 1}

\* A comparison of two atoms
Compare(op, a, b, env) ==
    IF Holds(op, Order(StrVal(a, env), TypeOf(a), StrVal(b, env), TypeOf(b)))
    THEN 2 ELSE 0

\* The constant m is m whether modules are enabled or not
RECURSIVE EvalExprPlainM(_, _)
EvalExprPlainM(e, env) ==
    CASE e[1] = "sym" -> IF IsTri(e[2]) THEN TriNum(env.val[e[2]]) ELSE 0
      [] e[1] = "const" -> TriNum(e[2])
      [] e[1] = "not" -> IF EvalExprPlainM(e[2], env) = 0 THEN 2 ELSE 0
      [] e[1] = "and" -> Min(EvalExprPlainM(e[2], env), EvalExprPlainM(e[3], env))
      [] e[1] = "or" -> Max(EvalExprPlainM(e[2], env), EvalExprPlainM(e[3], env))
      [] e[1] \in RelOps -> Compare(e[1], e[2], e[3], env)

\* A symbol of any type stands for its value as a tri-state value
RECURSIVE EvalExprAnySym(_, _)
EvalExprAnySym(e, env) ==
    CASE e[1] = "sym" -> TriNum(env.val[e[2]])
      [] e[1] = "const" -> IF e[2] = Y THEN 2
                           ELSE IF e[2] = M THEN Min(1, ModulesVal(env))
                           ELSE 0
      [] e[1] = "not" -> IF EvalExprAnySym(e[2], env) = 0 THEN 2 ELSE 0
      [] e[1] = "and" -> Min(EvalExprAnySym(e[2], env), EvalExprAnySym(e[3], env))
      [] e[1] = "or" -> Max(EvalExprAnySym(e[2], env), EvalExprAnySym(e[3], env))
      [] e[1] \in RelOps -> Compare(e[1], e[2], e[3], env)

\* The evaluator: an expression tree to a tri-state number.  The constant m
\* stands for "m && MODULES".
RECURSIVE EvalExpr(_, _)
EvalExpr(e, env) ==
    CASE e[1] = "sym" -> IF IsTri(e[2]) THEN TriNum(env.val[e[2]]) ELSE 0
      [] e[1] = "const" -> IF e[2] = Y THEN 2
                           ELSE IF e[2] = M THEN Min(1, ModulesVal(env))
                           ELSE 0
      [] e[1] = "not" -> IF EvalExpr(e[2], env) = 0 THEN 2 ELSE 0
      [] e[1] = "and" -> Min(EvalExpr(e[2], env), EvalExpr(e[3], env))
      [] e[1] = "or" -> Max(EvalExpr(e[2], env), EvalExpr(e[3], env))
      [] e[1] \in RelOps -> Compare(e[1], e[2], e[3], env)

\* The value of a default of a bool/tristate symbol: here the constant m is
\* m itself
EvalDefault(e, env) == IF e = ConstM THEN 1 ELSE EvalExpr(e, env)

\* The maximum over the prompts of their conditions
PromptsVal(prompts, env) ==
    MaxOf({EvalExpr(prompts[i], env) : i \in 1..Len(prompts)})

\* _get_visibility of a choice
ComputeChoiceVisibility(ch, env) ==
    TriStr(Promote(BoolPromote(PromptsVal(ChoiceOf(ch).prompts, env),
                               ChoiceOf(ch).type), env))

\* Every choice taken as optional: the least mode is n
UserModeLeastN(ch) ==
    IF ch_user_mode[ch] # None THEN TriNum(ch_user_mode[ch]) ELSE 0

\* The mode a choice is asked to be in: the user's, else the least mode it
\* can have
UserMode(ch) ==
    IF ch_user_mode[ch] # None THEN TriNum(ch_user_mode[ch])
    ELSE IF ChoiceOf(ch).optional THEN 0 ELSE 1

\* The mode the user asked for left out: the least mode, limited by the
\* visibility
ComputeModeLeast(ch, env) ==
    TriStr(BoolPromote(Promote(Min(IF ChoiceOf(ch).optional THEN 0 ELSE 1,
                                   TriNum(env.cvis[ch])), env),
                       ChoiceOf(ch).type))

\* The mode of a choice: the mode asked for, limited by its visibility
ComputeMode(ch, env) ==
    TriStr(BoolPromote(Promote(Min(UserMode(ch), TriNum(env.cvis[ch])), env),
                       ChoiceOf(ch).type))

\* The visibility v of the prompts of a symbol limited by its choice: a
\* tristate member that could only be m is hidden while the choice is in
\* mode y
MemberVis(s, v, env) ==
    IF ~IsChoiceSym(s) THEN v
    ELSE IF /\ SymOf(s).type = "tristate"
            /\ v = 1
            /\ ComputeMode(SymOf(s).choice, env) = Y
         THEN 0
    ELSE Min(v, TriNum(env.cvis[SymOf(s).choice]))

\* The choice of a member left out of its visibility
ComputeVisibilityAlone(s, env) ==
    TriStr(Promote(BoolPromote(PromptsVal(SymOf(s).prompts, env), SymOf(s).type), env))

\* _get_visibility of a symbol
ComputeVisibility(s, env) ==
    TriStr(Promote(BoolPromote(MemberVis(s, PromptsVal(SymOf(s).prompts, env), env),
                               SymOf(s).type), env))

\* The first visible member of a choice, Nil for none
ElemOr(seq, i, other) == IF i = 0 THEN other ELSE seq[i]
FirstVisible(ch, env) ==
    ElemOr(ChoiceOf(ch).syms,
           FirstOr({i \in 1..Len(ChoiceOf(ch).syms) :
                       env.vis[ChoiceOf(ch).syms[i]] # N}, 0),
           Nil)

\* The member of default i of the defaults d, other for i = 0
MemberOr(d, i, other) == IF i = 0 THEN other ELSE d[i][1]

\* The defaults of the choice ignored: the first visible member
SelectionFromMembers(ch, env) == FirstVisible(ch, env)

\* Choice.get_selection_from_defaults: the member of the first default whose
\* condition holds and that is visible, else the first visible member
SelectionFromDefaults(ch, env) ==
    MemberOr(ChoiceOf(ch).def_exprs,
             FirstOr({i \in 1..Len(ChoiceOf(ch).def_exprs) :
                         /\ EvalExpr(ChoiceOf(ch).def_exprs[i][2], env) # 0
                         /\ env.vis[ChoiceOf(ch).def_exprs[i][1]] # N}, 0),
             FirstVisible(ch, env))

\* The selection a choice computes, Nil for none
ComputeSelection(ch, env) ==
    IF ComputeMode(ch, env) # Y THEN Nil
    ELSE IF ch_user_val[ch] # Nil /\ env.vis[ch_user_val[ch]] = Y
         THEN ch_user_val[ch]
    ELSE IF ChoiceOf(ch).optional THEN Nil
    ELSE SelectionFromDefaults(ch, env)

\* The first default whose condition holds: its index, 0 for none
ActiveDefault(s, env) ==
    FirstOr({i \in 1..Len(SymOf(s).def_exprs) :
                EvalExpr(SymOf(s).def_exprs[i][2], env) # 0}, 0)

\* The tri-state value of default i of the defaults d, n for i = 0
DefaultTri(d, i, env) ==
    IF i = 0 THEN 0
    ELSE Min(EvalDefault(d[i][1], env), EvalExpr(d[i][2], env))

\* The value of a bool/tristate symbol from its visibility vis, the value
\* dflt of its default, and the values weak and rev of its weak and its
\* reverse dependencies
TriValue(s, vis, dflt, weak, rev) ==
    LET base == IF vis # 0 /\ user_val[s] # None
                THEN Min(TriNum(user_val[s]), vis)
                ELSE Max(dflt, weak)
        forced == Max(base, rev)
    IN  IF forced = 1 /\ (SymOf(s).type = "bool" \/ weak = 2) THEN 2 ELSE forced

\* Symbol.get_value of a bool/tristate symbol that is no choice member
ComputeTriValue(s, env) ==
    TriStr(Promote(TriValue(s, TriNum(env.vis[s]),
                            DefaultTri(SymOf(s).def_exprs, ActiveDefault(s, env), env),
                            EvalExpr(SymOf(s).weak_rev_dep, env),
                            EvalExpr(SymOf(s).rev_dep, env)),
                   env))

\* The value of a choice member from its visibility and the mode and the
\* selection of its choice
\* In mode y every member the user gave y has the value y
MemberValueUser(s, vis, mode, sel) ==
    IF vis = N THEN N
    ELSE IF mode = Y THEN (IF user_val[s] = Y THEN Y ELSE N)
    ELSE IF mode = M /\ user_val[s] \in {M, Y} THEN M
    ELSE N

MemberValue(s, vis, mode, sel) ==
    IF vis = N THEN N
    ELSE IF mode = Y THEN (IF sel = s THEN Y ELSE N)
    ELSE IF mode = M /\ user_val[s] \in {M, Y} THEN M
    ELSE N

\* Symbol.get_value of a choice member
ComputeMemberValue(s, env) ==
    MemberValue(s, env.vis[s], ComputeMode(SymOf(s).choice, env),
                env.sel[SymOf(s).choice])

\* The active range of an int/hex symbol: the index of the first range whose
\* condition holds, 0 for none
ActiveRange(s, env) ==
    FirstOr({i \in 1..Len(SymOf(s).ranges) :
                EvalExpr(SymOf(s).ranges[i][3], env) # 0}, 0)

NumBase(type) == IF type = "hex" THEN 16 ELSE 10

\* int(str, base), 0 for a string that is no number
NumOr0(str, base) == IF IsBaseN(str, base) THEN ParseInt(str, base) ELSE 0

\* Bound k (1: low, 2: high) of range i of a symbol, 0 for i = 0
BoundAt(sym, i, k, env) ==
    IF i = 0 THEN 0 ELSE NumOr0(StrVal(sym.ranges[i][k], env), NumBase(sym.type))

RangeBound(s, k, env) == BoundAt(SymOf(s), ActiveRange(s, env), k, env)

\* The string of default i of the defaults d, the empty string for i = 0
DefaultAt(d, i, env) == IF i = 0 THEN <<>> ELSE StrVal(d[i][1], env)

DefaultStr(s, env) == DefaultAt(SymOf(s).def_exprs, ActiveDefault(s, env), env)

\* str(n) for an int symbol, hex(n) for a hex symbol
Fmt(type, n) == IF type = "hex" THEN HexInt(n) ELSE StrInt(n)

\* Any number of the symbol's base is used, whatever the range
UserOkAnyNumber(type, vis, user, has_active_range, low, high) ==
    vis # N /\ user # None /\ IsBaseN(user, NumBase(type))

\* Whether the user value of an int/hex symbol is used: the symbol is
\* visible and the value is a number of the symbol's base within the active
\* range
UserOk(type, vis, user, has_active_range, low, high) ==
    /\ vis # N
    /\ user # None
    /\ IsBaseN(user, NumBase(type))
    /\ \/ ~has_active_range
       \/ /\ low <= ParseInt(user, NumBase(type))
          /\ ParseInt(user, NumBase(type)) <= high

\* The default as it is, never moved
ClampNever(type, dstr, has_active_range, low, high) == dstr

\* The default dstr of an int/hex symbol, moved to the nearest bound of the
\* active range when it is a number outside of it
Clamp(type, dstr, has_active_range, low, high) ==
    IF IsBaseN(dstr, NumBase(type)) /\ has_active_range
          /\ ParseInt(dstr, NumBase(type)) < low
    THEN Fmt(type, low)
    ELSE IF IsBaseN(dstr, NumBase(type)) /\ has_active_range
               /\ ParseInt(dstr, NumBase(type)) > high
    THEN Fmt(type, high)
    ELSE dstr

\* The low bound whenever it is not zero
NoDefaultNonZero(type, has_active_range, low) ==
    IF has_active_range /\ low # 0 THEN Fmt(type, low) ELSE <<>>

\* The value of a symbol without a default and without a usable user value:
\* the low bound of the active range when that is positive, else empty
NoDefault(type, has_active_range, low) ==
    IF has_active_range /\ low > 0 THEN Fmt(type, low) ELSE <<>>

NumValue(type, vis, user, has_active_range, low, high, has_default, dstr) ==
    IF UserOk(type, vis, user, has_active_range, low, high) THEN user
    ELSE IF has_default THEN Clamp(type, dstr, has_active_range, low, high)
    ELSE NoDefault(type, has_active_range, low)

\* Symbol.get_value of an int or hex symbol
ComputeNumValue(s, env) ==
    NumValue(SymOf(s).type, env.vis[s], user_val[s],
             ActiveRange(s, env) # 0, RangeBound(s, 1, env), RangeBound(s, 2, env),
             ActiveDefault(s, env) # 0, DefaultStr(s, env))

\* Symbol.get_value of a string symbol
ComputeStrValue(s, env) ==
    IF env.vis[s] # N /\ user_val[s] # None THEN user_val[s]
    ELSE DefaultStr(s, env)

ComputeValue(s, env) ==
    CASE SymOf(s).type \in {"bool", "tristate"} ->
             IF IsChoiceSym(s) THEN ComputeMemberValue(s, env)
             ELSE ComputeTriValue(s, env)
      [] SymOf(s).type \in {"int", "hex"} -> ComputeNumValue(s, env)
      [] SymOf(s).type = "string" -> ComputeStrValue(s, env)

\* Every visible symbol counts as modifiable, selected or not
IsModifiableIfVisible(s, env) == env.vis[s] # N

\* Symbol.is_modifiable: a bool/tristate symbol can be given a value above
\* the one its selectors force, but a bool selected to m is pinned to y; any
\* other symbol is modifiable while it is visible
IsModifiable(s, env) ==
    IF ~IsTri(s) THEN env.vis[s] # N
    ELSE IF EvalExpr(SymOf(s).rev_dep, env) = 1 /\ SymOf(s).type = "bool" THEN FALSE
    ELSE TriNum(env.vis[s]) > EvalExpr(SymOf(s).rev_dep, env)

\* What Choice caches for a selection r: the sentinel for "no selection"
SelEntry(r) == IF r = Nil THEN NoSel ELSE r
SelOf(r) == IF r = NoSel THEN Nil ELSE r

\* The answers of an instance whose caches are c: a cached entry is answered
\* from the cache, any other entry is computed from the answers to what it
\* asks for in turn.
RECURSIVE Evaluated(_)
Evaluated(c) ==
    [val |-> [s \in Syms |->
                 IF c.val[s] # None THEN c.val[s] ELSE ComputeValue(s, Evaluated(c))],
     vis |-> [s \in Syms |->
                 IF c.vis[s] # None THEN c.vis[s]
                 ELSE ComputeVisibility(s, Evaluated(c))],
     sel |-> [ch \in Choices |->
                 IF c.sel[ch] # Nil THEN c.sel[ch]
                 ELSE SelEntry(ComputeSelection(ch, Evaluated(c)))],
     cvis |-> [ch \in Choices |->
                 IF c.cvis[ch] # None THEN c.cvis[ch]
                 ELSE ComputeChoiceVisibility(ch, Evaluated(c))]]

\* Symbol.get_value
GetValue(s, c) == Evaluated(c).val[s]

\* Choice.get_selection, Nil for no selection
GetSelection(ch, c) == SelOf(Evaluated(c).sel[ch])


----------------------------------------------------------------------------
(* What a computation reads, and the dependent sets *)

RECURSIVE ExprSyms(_)
ExprSyms(e) ==
    CASE e[1] = "sym" -> {e[2]}
      [] e[1] = "const" -> {}
      [] e[1] = "not" -> ExprSyms(e[2])
      [] OTHER -> ExprSyms(e[2]) \cup ExprSyms(e[3])

SeqSyms(es) == UNION {ExprSyms(es[i]) : i \in 1..Len(es)}
PairSyms(ps) == UNION {ExprSyms(ps[i][1]) \cup ExprSyms(ps[i][2]) : i \in 1..Len(ps)}
RangeSyms(rs) ==
    UNION {ExprSyms(rs[i][1]) \cup ExprSyms(rs[i][2]) \cup ExprSyms(rs[i][3]) :
           i \in 1..Len(rs)}
CondSyms(ds) == UNION {ExprSyms(ds[i][2]) : i \in 1..Len(ds)}

\* Every promotion site reads the value of MODULES
ModulesRead(s) == IF "MODULES" \in Syms /\ s # "MODULES" THEN {"MODULES"} ELSE {}

\* A cache entry is <<"val", s>>, <<"vis", s>>, <<"sel", ch>> or <<"cvis", ch>>.
\* Reads(e): the entries the computation of entry e asks for.
Vals(S) == {<<"val", t>> : t \in S}

Reads(e) ==
    CASE e[1] = "val" ->
             LET sym == SymOf(e[2])
             IN  {<<"vis", e[2]>>}
                 \cup Vals(PairSyms(sym.def_exprs) \cup RangeSyms(sym.ranges)
                           \cup ExprSyms(sym.rev_dep) \cup ExprSyms(sym.weak_rev_dep)
                           \cup ModulesRead(e[2]))
                 \cup (IF IsChoiceSym(e[2])
                       THEN {<<"sel", sym.choice>>, <<"cvis", sym.choice>>} ELSE {})
      [] e[1] = "vis" ->
             LET sym == SymOf(e[2])
             IN  Vals(SeqSyms(sym.prompts) \cup ModulesRead(e[2]))
                 \cup (IF IsChoiceSym(e[2]) THEN {<<"cvis", sym.choice>>} ELSE {})
      [] e[1] = "sel" ->
             LET ch == ChoiceOf(e[2])
             IN  {<<"cvis", e[2]>>}
                 \cup {<<"vis", m>> : m \in Range(ch.syms)}
                 \cup Vals(CondSyms(ch.def_exprs) \cup ModulesRead(""))
      [] e[1] = "cvis" ->
             Vals(SeqSyms(ChoiceOf(e[2]).prompts) \cup ModulesRead(""))

IsCached(e, c) ==
    CASE e[1] = "val" -> c.val[e[2]] # None
      [] e[1] = "vis" -> c.vis[e[2]] # None
      [] e[1] = "sel" -> c.sel[e[2]] # Nil
      [] e[1] = "cvis" -> c.cvis[e[2]] # None

\* The entries a query for the entries in E computes (and caches): those not
\* cached yet, and what they read in turn.
RECURSIVE Computed(_, _)
Computed(E, c) ==
    LET U == {e \in E : ~IsCached(e, c)}
        more == U \cup UNION {{r \in Reads(e) : ~IsCached(r, c)} : e \in U}
    IN  IF more = U THEN U ELSE Computed(more, c)

\* The symbols that read the value of a symbol of S directly, in their own
\* value or visibility or through their choice, and the other members of the
\* choices of S.
Dep(S) ==
    {t \in Syms :
        \/ \E s \in S, k \in {"val", "vis"} : <<"val", s>> \in Reads(<<k, t>>)
        \/ /\ IsChoiceSym(t)
           /\ \/ \E s \in S, k \in {"sel", "cvis"} :
                     <<"val", s>> \in Reads(<<k, SymOf(t).choice>>)
              \/ \E s \in S : IsChoiceSym(s) /\ SymOf(s).choice = SymOf(t).choice}

RECURSIVE DepClosure(_)
DepClosure(S) ==
    LET more == S \cup Dep(S)
    IN  IF more = S THEN S ELSE DepClosure(more)

\* The symbols that read s directly
DirectDependent(s) == Dep({s}) \ {s}

\* Symbol._get_dependent
GetDependent(s) == DepClosure({s}) \ {s}


----------------------------------------------------------------------------
(* Queries: they compute what is not cached and cache it *)

\* The entries comp are cached with the answers env
CacheEntries(comp, env) ==
    /\ cached_val' = [s \in Syms |->
           IF <<"val", s>> \in comp THEN env.val[s] ELSE cached_val[s]]
    /\ cached_vis' = [s \in Syms |->
           IF <<"vis", s>> \in comp THEN env.vis[s] ELSE cached_vis[s]]
    /\ ch_cached_sel' = [ch \in Choices |->
           IF <<"sel", ch>> \in comp THEN env.sel[ch] ELSE ch_cached_sel[ch]]
    /\ ch_cached_vis' = [ch \in Choices |->
           IF <<"cvis", ch>> \in comp THEN env.cvis[ch] ELSE ch_cached_vis[ch]]

FillCaches(E) == CacheEntries(Computed(E, Cache), Evaluated(Cache))

Fill(E) ==
    /\ FillCaches(E)
    /\ UNCHANGED <<kconf, user_val, ch_user_val, ch_user_mode, conf_file, last>>

\* Symbol.get_value()
get_value(s) == Fill({<<"val", s>>})

\* Symbol.get_visibility()
get_visibility(s) == Fill({<<"vis", s>>})

\* Choice.get_mode()
get_mode(ch) == Fill({<<"cvis", ch>>})

\* Choice.get_selection()
get_selection(ch) == Fill({<<"sel", ch>>})

\* Choice.get_visibility()
choice_get_visibility(ch) == Fill({<<"cvis", ch>>})

\* Menu.get_visibility() and Comment.get_visibility(): the value of the
\* dependencies, as it is
ItemVisibility(i, env) == TriStr(EvalExpr(ItemOf(i).dep, env))

\* The answer is recorded in last; evaluating the dependencies reads MODULES
item_get_visibility(i) ==
    /\ FillCaches(Vals(ExprSyms(ItemOf(i).dep) \cup ModulesRead("")))
    /\ last' = [op |-> "get_visibility", item |-> i,
                res |-> ItemVisibility(i, Evaluated(Cache))]
    /\ UNCHANGED <<kconf, user_val, ch_user_val, ch_user_mode, conf_file>>

\* Symbol.is_modifiable(): the answer is recorded in last
is_modifiable(s) ==
    /\ FillCaches(Vals(ExprSyms(SymOf(s).rev_dep))
                  \cup (IF /\ SymOf(s).type = "bool"
                            /\ EvalExpr(SymOf(s).rev_dep, Evaluated(Cache)) = 1
                         THEN {} ELSE {<<"vis", s>>}))
    /\ last' = [op |-> "is_modifiable", sym |-> s,
                res |-> IsModifiable(s, Evaluated(Cache))]
    /\ UNCHANGED <<kconf, user_val, ch_user_val, ch_user_mode, conf_file>>

\* The value the selects force, a bool selected to m being forced to y
RevDepPlain(s, env) == EvalExpr(SymOf(s).rev_dep, env)

RevDep(s, env) ==
    IF SymOf(s).type = "bool" /\ EvalExpr(SymOf(s).rev_dep, env) = 1 THEN 2
    ELSE EvalExpr(SymOf(s).rev_dep, env)

\* Whether a bool or tristate symbol can be given a value above the one its
\* selects force
HasBounds(s, env) == IsTri(s) /\ TriNum(env.vis[s]) > RevDep(s, env)

\* Symbol.get_lower_bound, get_upper_bound, get_assignable_values
GetLowerBound(s, env) == IF HasBounds(s, env) THEN TriStr(RevDep(s, env)) ELSE None
GetUpperBound(s, env) == IF HasBounds(s, env) THEN env.vis[s] ELSE None
GetAssignableValues(s, env) ==
    IF HasBounds(s, env)
    THEN SubSeq(<<N, M, Y>>, RevDep(s, env) + 1, TriNum(env.vis[s]) + 1)
    ELSE <<>>

\* Symbol.get_def_locations: the files that declare the symbol
GetDefLocations(s) == IF IsSpecial(s) THEN <<>> ELSE <<kconf.file>>

\* Symbol.is_defined
IsDefined(s) == IsSpecial(s) \/ s \in Syms

\* get_lower_bound(), get_upper_bound() and get_assignable_values() of a
\* symbol, asked as verify_bounds does, with is_modifiable(),
\* get_def_locations() and is_defined(): the answers are recorded in last
get_bounds(s) ==
    /\ FillCaches(IF IsTri(s) THEN Vals(ExprSyms(SymOf(s).rev_dep)) \cup {<<"vis", s>>}
                  ELSE {<<"vis", s>>})
    /\ last' = [op |-> "get_bounds", sym |-> s,
                low |-> GetLowerBound(s, Evaluated(Cache)),
                high |-> GetUpperBound(s, Evaluated(Cache)),
                vals |-> GetAssignableValues(s, Evaluated(Cache)),
                modifiable |-> IsModifiable(s, Evaluated(Cache)),
                locations |-> GetDefLocations(s),
                defined |-> IsDefined(s)]
    /\ UNCHANGED <<kconf, user_val, ch_user_val, ch_user_mode, conf_file>>

\* Symbol._get_dependent(): the answer is recorded in last. The set is
\* computed from the declarations alone, so what the first call caches is
\* what every later call computes.
get_dependent(s) ==
    /\ last' = [op |-> "_get_dependent", sym |-> s, res |-> GetDependent(s)]
    /\ UNCHANGED <<kconf, user_val, cached_val, cached_vis, ch_user_val,
                   ch_user_mode, ch_cached_sel, ch_cached_vis, conf_file>>

----------------------------------------------------------------------------
(* Config.eval: an expression given as text *)

\* The lexemes of an expression text: an operator or parenthesis, the name
\* of a symbol the Kconfig file defines, any other unquoted word (n, m, y, a
\* number, the name of an undefined symbol), and a quoted string
Op(o) == [kind |-> "op", name |-> o, text |-> <<>>]
Id(name) == [kind |-> "id", name |-> name, text |-> <<>>]
Word(text) == [kind |-> "word", name |-> "", text |-> text]
Str(text) == [kind |-> "str", name |-> "", text |-> text]

Rel(a, op, b) == <<a, Op(op), b>>

\* The expressions the tests evaluate that read no symbol of the file ...
EvalConstants ==
    {<<Word(N)>>, <<Str(N)>>, <<Word(M)>>, <<Str(M)>>, <<Word(Y)>>, <<Str(Y)>>,
     <<Str(Foo)>>, <<Str(Foo), Op("||"), Str(<<"b", "a", "r">>)>>,
     Rel(Str(Foo), "=", Str(Foo)),
     Rel(Str(Oops), "=", Word(Oops)),
     Rel(Str(<<"a", "a">>), "<", Str(<<"a", "b">>)),
     Rel(Str(<<"a", "b">>), "<", Str(<<"a", "a">>))}

\* ... those that read a symbol ...
EvalSymbols ==
    {<<Id("M")>>,
     <<Op("("), Id("Y"), Op("||"), Id("N"), Op(")"), Op("&&"),
       Op("("), Word(M), Op("&&"), Word(Y), Op(")")>>,
     <<Op("!"), Id("N")>>,
     Rel(Id("M"), "=", Word(M)),
     <<Id("Y_STRING")>>, <<Id("Y_STRING"), Op("||"), Word(M)>>,
     Rel(Id("Y_STRING"), "=", Word(Y)),
     Rel(Id("INT_37"), "<", Word(<<"3", "8">>)),
     Rel(Id("INT_37"), "<", Str(<<"3", "8">>)),
     Rel(Id("INT_37"), "<", Word(<<"-", "1", "3", "8">>)),
     Rel(Id("INT_37"), "<", Word(<<"0", "x", "2", "6">>)),
     Rel(Id("INT_37"), "<", Id("HEX_0X37")),
     Rel(Id("INT_37"), "<", Word(Oops)),
     Rel(Word(Oops), ">=", Id("INT_37")),
     Rel(Id("INT_37"), "!=", Word(Oops)),
     Rel(Id("HEX_0X37"), "=", Str(<<"0", "x", "0", "3", "7">>)),
     Rel(Id("HEX_0X37"), "<", Word(<<"5", "5">>)),
     Rel(Id("HEX_37"), "<", Word(<<"0", "x", "3", "8">>))}

\* ... and the malformed ones; X is an undefined symbol
EvalBad ==
    {<<>>, <<Op("&")>>, <<Op("|")>>, <<Op("!")>>, <<Op("(")>>, <<Op(")")>>,
     <<Op("=")>>, <<Op("("), Word(<<"X">>)>>, <<Word(<<"X">>), Op("&&")>>,
     <<Op("&&"), Word(<<"X">>)>>, <<Word(<<"X">>), Op("||")>>,
     <<Op("||"), Word(<<"X">>)>>}

\* The names of the symbols a text names
Ids(text) == {text[i].name : i \in {j \in 1..Len(text) : text[j].kind = "id"}}

\* The expression texts handed to eval() of a Config of a file
EvalInputs(file) ==
    CASE file = "Keval" -> EvalConstants \cup EvalSymbols \cup EvalBad
      [] OTHER -> {}

\* The tokenizer: a lone & or | is not a token and is skipped
IsToken(l) == ~(l.kind = "op" /\ l.name \in {"&", "|"})
Tokenize(text) == SelectSeq(text, IsToken)

\* The operand a word stands for: a defined symbol, or a constant whose
\* value is the text (the name, for an undefined symbol)
Atom(l) == IF l.kind = "id" THEN Ref(l.name) ELSE Const(l.text)

IsOp(toks, o) == toks # <<>> /\ Head(toks).kind = "op" /\ Head(toks).name = o

Parsed(tree, rest) == [ok |-> TRUE, tree |-> tree, rest |-> rest]
NotParsed == [ok |-> FALSE, tree |-> ConstN, rest |-> <<>>]

\* A comparison: a relation follows the first operand and an operand follows
\* the relation
IsRelation(toks) ==
    /\ Len(toks) >= 2
    /\ toks[2].kind = "op"
    /\ toks[2].name \in RelOps

NotOf(f) == IF f.ok THEN Parsed(<<"not", f.tree>>, f.rest) ELSE f

Closed(e) ==
    IF e.ok /\ IsOp(e.rest, ")") THEN Parsed(e.tree, Tail(e.rest)) ELSE NotParsed

Joined(node, l, r) == IF r.ok THEN Parsed(<<node, l.tree, r.tree>>, r.rest) ELSE r

\* The parser, by recursive descent:
\*   or-term  = and-term [ "||" or-term ]
\*   and-term = factor [ "&&" and-term ]
\*   factor   = operand [ relation operand ] | "!" factor | "(" or-term ")"
\* Anything else is malformed.
RECURSIVE ParseAt(_, _)
ParseAt(level, toks) ==
    IF level = "factor"
    THEN IF toks = <<>> THEN NotParsed
         ELSE IF Head(toks).kind # "op"
              THEN IF ~IsRelation(toks) THEN Parsed(Atom(toks[1]), Tail(toks))
                   ELSE IF Len(toks) >= 3 /\ toks[3].kind # "op"
                        THEN Parsed(<<toks[2].name, Atom(toks[1]), Atom(toks[3])>>,
                                    Drop(toks, 3))
                   ELSE NotParsed
         ELSE IF Head(toks).name = "!" THEN NotOf(ParseAt("factor", Tail(toks)))
         ELSE IF Head(toks).name = "(" THEN Closed(ParseAt("or", Tail(toks)))
         ELSE NotParsed
    ELSE LET l == ParseAt(IF level = "or" THEN "and" ELSE "factor", toks)
         IN  IF l.ok /\ IsOp(l.rest, IF level = "or" THEN "||" ELSE "&&")
             THEN Joined(level, l, ParseAt(level, Tail(l.rest)))
             ELSE l

\* A malformed text is taken for the constant n
ParseLax(text) == [ParseAt("or", Tokenize(text)) EXCEPT !.ok = TRUE]

\* Config._parse_expr of the tokens of a text
Parse(text) == ParseAt("or", Tokenize(text))

\* Whether the evaluation of e evaluates the constant m, which reads MODULES
RECURSIVE ReadsM(_)
ReadsM(e) ==
    CASE e[1] = "const" -> e[2] = M
      [] e[1] = "not" -> ReadsM(e[2])
      [] e[1] \in {"and", "or"} -> ReadsM(e[2]) \/ ReadsM(e[3])
      [] OTHER -> FALSE

\* What eval() raises for a malformed expression
SyntaxError == <<"Kconfig_Syntax_Error">>

\* What eval() of the parsed expression p gives
EvalParsed(p, env) == IF p.ok THEN TriStr(EvalExpr(p.tree, env)) ELSE SyntaxError

\* Config.eval(text) as an expression of the answers env
Eval(text, env) == EvalParsed(Parse(text), env)

\* The cache entries the evaluation of the parsed expression p asks for
EvalReads(p) ==
    IF ~p.ok THEN {}
    ELSE Vals(ExprSyms(p.tree) \cup (IF ReadsM(p.tree) THEN ModulesRead("") ELSE {}))

\* Config.eval(text): the result, or the error, is recorded in last; the
\* symbols the expression reads are evaluated
eval(text) ==
    /\ FillCaches(EvalReads(Parse(text)))
    /\ last' = [op |-> "eval", text |-> text, res |-> Eval(text, Evaluated(Cache))]
    /\ UNCHANGED <<kconf, user_val, ch_user_val, ch_user_mode, conf_file>>

----------------------------------------------------------------------------
(* The comparisons of tri-state values, and the string literals of the     *)
(* tokenizer                                                                *)

\* The values compared in the order of their letters
TriLessByLetter(v1, v2) == StrLess(v1, v2)

\* tri_less, tri_less_eq, tri_greater, tri_greater_eq
tri_less(v1, v2) == TriNum(v1) < TriNum(v2)
tri_less_eq(v1, v2) == TriNum(v1) <= TriNum(v2)
tri_greater(v1, v2) == TriNum(v1) > TriNum(v2)
tri_greater_eq(v1, v2) == TriNum(v1) >= TriNum(v2)

TriFunctions == {"tri_less", "tri_less_eq", "tri_greater", "tri_greater_eq"}

TriCompare(fn, v1, v2) ==
    CASE fn = "tri_less" -> tri_less(v1, v2)
      [] fn = "tri_less_eq" -> tri_less_eq(v1, v2)
      [] fn = "tri_greater" -> tri_greater(v1, v2)
      [] fn = "tri_greater_eq" -> tri_greater_eq(v1, v2)

\* A call of one of the four functions; the answer is recorded in last
tri_compare(fn, v1, v2) ==
    /\ last' = [op |-> fn, x |-> v1, y |-> v2, res |-> TriCompare(fn, v1, v2)]
    /\ UNCHANGED <<kconf, user_val, cached_val, cached_vis, ch_user_val,
                   ch_user_mode, ch_cached_sel, ch_cached_vis, conf_file>>

\* The longest text between the opening quote and the end of a tokenized text
MaxLexLen == 3

\* The texts tokenized: a quote followed by at most n characters out of
\* backslash, the two quotes and a letter
LexTexts(n) ==
    {<<q>> \o b : q \in {DQ, SQ},
                  b \in UNION {[1..k -> {BSL, DQ, SQ, "a"}] : k \in 0..n}}

Scanned(val, rest) == [ok |-> TRUE, val |-> val, rest |-> rest]
Unterminated == [ok |-> FALSE, val |-> <<>>, rest |-> <<>>]

\* A backslash is an ordinary character, the first quote closes the literal
RECURSIVE ScanStringRaw(_, _, _)
ScanStringRaw(s, quote, val) ==
    IF s = <<>> THEN Unterminated
    ELSE IF Head(s) = quote THEN Scanned(val, Tail(s))
    ELSE ScanStringRaw(Tail(s), quote, Append(val, Head(s)))

\* The string literal opened by quote, s being the text after the opening
\* quote and val the content read so far: the content up to the closing
\* quote, a backslash giving the character after it
RECURSIVE ScanString(_, _, _)
ScanString(s, quote, val) ==
    IF s = <<>> THEN Unterminated
    ELSE IF Head(s) = quote THEN Scanned(val, Tail(s))
    ELSE IF Head(s) = BSL
         THEN IF Len(s) < 2 THEN Unterminated
              ELSE ScanString(Drop(s, 2), quote, Append(val, s[2]))
    ELSE ScanString(Tail(s), quote, Append(val, Head(s)))

\* The length of the word s begins with
WordLen(s) ==
    FirstOr({i \in 1..Len(s) : s[i] \in {BSL, DQ, SQ}}, Len(s) + 1) - 1

Lexed(toks) == [ok |-> TRUE, toks |-> toks]
NotLexed == [ok |-> FALSE, toks |-> <<>>]
Then(tok, lexed) == IF lexed.ok THEN Lexed(<<tok>> \o lexed.toks) ELSE lexed

\* Config._tokenize of a text of quotes, backslashes and letters: a quote
\* opens a string literal, letters form a word, and a backslash outside of a
\* literal is skipped; an unterminated literal is an error
RECURSIVE LexText(_)
LexText(s) ==
    IF s = <<>> THEN Lexed(<<>>)
    ELSE IF Head(s) = BSL THEN LexText(Tail(s))
    ELSE IF Head(s) \notin {DQ, SQ}
         THEN Then(Word(Take(s, WordLen(s))), LexText(Drop(s, WordLen(s))))
    ELSE IF ~ScanString(Tail(s), Head(s), <<>>).ok THEN NotLexed
    ELSE Then(Str(ScanString(Tail(s), Head(s), <<>>).val),
              LexText(ScanString(Tail(s), Head(s), <<>>).rest))

\* Config._tokenize(s, for_eval = True): the tokens or the error are
\* recorded in last
tokenize(s) ==
    /\ last' = [op |-> "tokenize", text |-> s, ok |-> LexText(s).ok,
                toks |-> LexText(s).toks]
    /\ UNCHANGED <<kconf, user_val, cached_val, cached_vis, ch_user_val,
                   ch_user_mode, ch_cached_sel, ch_cached_vis, conf_file>>

----------------------------------------------------------------------------
(* Mutations *)

\* No check of the value: every value is taken
ValidForAny(type, v) == TRUE

\* Whether v is a valid user value for a symbol of the type
ValidFor(type, v) ==
    \/ type = "bool" /\ v \in {Y, N}
    \/ type = "tristate" /\ v \in {Y, M, N}
    \/ type = "string"
    \/ type = "int" /\ IsBaseN(v, 10)
    \/ type = "hex" /\ IsBaseN(v, 16)

\* The choice is not told about the value of its member
AssignNoChoice(u, s, v) ==
    IF ~ValidFor(SymOf(s).type, v) THEN u
    ELSE <<[u[1] EXCEPT ![s] = v], u[2], u[3]>>

\* A number is stored in the form get_value() gives to a bound
AssignNormalized(u, s, v) ==
    IF SymOf(s).type \in {"int", "hex"} /\ ValidFor(SymOf(s).type, v)
    THEN <<[u[1] EXCEPT ![s] = Fmt(SymOf(s).type, ParseInt(v, NumBase(SymOf(s).type)))],
           u[2], u[3]>>
    ELSE AssignNoChoice(u, s, v)

\* Symbol._set_user_value_no_invalidate on the triple <<user_val,
\* ch_user_val, ch_user_mode>>: an invalid value changes nothing
Assign(u, s, v) ==
    LET ch == SymOf(s).choice
    IN  IF IsSpecial(s) \/ ~ValidFor(SymOf(s).type, v) THEN u
        ELSE <<[u[1] EXCEPT ![s] = v],
               IF IsChoiceSym(s) /\ IsTri(s) /\ v \in {Y, M}
               THEN [u[2] EXCEPT ![ch] = IF v = Y THEN s ELSE Nil] ELSE u[2],
               IF IsChoiceSym(s) /\ IsTri(s) /\ v \in {Y, M}
               THEN [u[3] EXCEPT ![ch] = v] ELSE u[3]>>

\* A constant is invalidated like any other symbol
InvalidateAny(S) ==
    LET chs == {SymOf(s).choice : s \in {x \in S : IsChoiceSym(x)}}
    IN  /\ cached_val' = [s \in Syms |-> IF s \in S THEN None ELSE cached_val[s]]
        /\ cached_vis' = [s \in Syms |-> IF s \in S THEN None ELSE cached_vis[s]]
        /\ ch_cached_sel' = [ch \in Choices |->
               IF ch \in chs THEN Nil ELSE ch_cached_sel[ch]]
        /\ ch_cached_vis' = [ch \in Choices |->
               IF ch \in chs THEN None ELSE ch_cached_vis[ch]]

\* Symbol._unset_user_value_no_recursive_invalidate, without the invalidation
Unassign(u, s) ==
    LET ch == SymOf(s).choice
    IN  <<[u[1] EXCEPT ![s] = None],
          IF IsChoiceSym(s) THEN [u[2] EXCEPT ![ch] = Nil] ELSE u[2],
          IF IsChoiceSym(s) THEN [u[3] EXCEPT ![ch] = None] ELSE u[3]>>

\* The dependent set left out: only the caches of s itself are invalidated
InvalidatedSelf(s) == {s}

\* The symbols whose caches a change of s's user value invalidates
Invalidated(s) == {s} \cup GetDependent(s)

\* Symbol._invalidate on every symbol of S; a choice member also invalidates
\* its choice, and a constant keeps what is cached for it
Invalidate(S) ==
    LET chs == {SymOf(s).choice : s \in {x \in S : IsChoiceSym(x)}}
    IN  /\ cached_val' = [s \in Syms |->
               IF s \in S /\ ~IsSpecial(s) THEN None ELSE cached_val[s]]
        /\ cached_vis' = [s \in Syms |->
               IF s \in S /\ ~IsSpecial(s) THEN None ELSE cached_vis[s]]
        /\ ch_cached_sel' = [ch \in Choices |->
               IF ch \in chs THEN Nil ELSE ch_cached_sel[ch]]
        /\ ch_cached_vis' = [ch \in Choices |->
               IF ch \in chs THEN None ELSE ch_cached_vis[ch]]

SetUser(u) ==
    /\ user_val' = u[1]
    /\ ch_user_val' = u[2]
    /\ ch_user_mode' = u[3]

User == <<user_val, ch_user_val, ch_user_mode>>

\* Symbol.set_user_value(v)
set_user_value(s, v) ==
    /\ SetUser(Assign(User, s, v))
    /\ Invalidate(Invalidated(s))
    /\ last' = [op |-> "set_user_value", sym |-> s, val |-> v,
                ok |-> ~IsSpecial(s) /\ ValidFor(SymOf(s).type, v)]
    /\ UNCHANGED <<kconf, conf_file>>

\* Symbol.unset_user_value()
unset_user_value(s) ==
    /\ SetUser(Unassign(User, s))
    /\ Invalidate(Invalidated(s))
    /\ last' = [op |-> "unset_user_value"]
    /\ UNCHANGED <<kconf, conf_file>>

NoUser == <<[s \in Syms |-> None], [ch \in Choices |-> Nil], [ch \in Choices |-> None]>>

\* Config.unset_user_values()
unset_user_values ==
    /\ SetUser(NoUser)
    /\ Invalidate(Syms)
    /\ last' = [op |-> "unset_user_values"]
    /\ UNCHANGED <<kconf, conf_file>>


----------------------------------------------------------------------------
(* Reading and writing .config files *)

\* The escaping write_config applies to a string value, and what
\* load_config undoes
EscapeQuotes(v) == Replace(v, <<DQ>>, <<BSL, DQ>>)
Escape(v) == Replace(Replace(v, <<BSL>>, <<BSL, BSL>>), <<DQ>>, <<BSL, DQ>>)
Unescape(v) == Replace(Replace(v, <<BSL, DQ>>, <<DQ>>), <<BSL, BSL>>, <<BSL>>)

Quoted(text) == StartsWith(text, <<DQ>>)
Malformed(text) == Quoted(text) /\ (Len(text) < 2 \/ text[Len(text)] # DQ)

\* The value an assignment line gives
LineVal(line) ==
    IF line.kind = "unset" THEN N
    ELSE IF Quoted(line.val) THEN Unescape(SubSeq(line.val, 2, Len(line.val) - 1))
    ELSE line.val

\* The lines of a file applied in order to <<user_val, ch_user_val, ch_user_mode>>
RECURSIVE ApplyLines(_, _)
ApplyLines(u, lines) ==
    IF lines = <<>> THEN u
    ELSE LET line == Head(lines)
             next == IF line.name \in Syms /\ ~Malformed(line.val)
                     THEN Assign(u, line.name, LineVal(line)) ELSE u
         IN  ApplyLines(next, Tail(lines))

FileNames(lines) == {lines[i].name : i \in 1..Len(lines)}

\* The replace argument ignored: the user values are always cleared first
load_config_replacing(lines, replace) ==
    /\ SetUser(ApplyLines(NoUser, lines))
    /\ Invalidate(Syms)
    /\ last' = [op |-> "load_config", replace |-> replace, names |-> FileNames(lines),
                written |-> conf_file.written /\ lines = conf_file.lines,
                user |-> user_val, val |-> [s \in Syms |-> Evaluated(Cache).val[s]]]
    /\ UNCHANGED <<kconf, conf_file>>

\* The replace argument ignored: the user values are never cleared
load_config_merging(lines, replace) ==
    /\ SetUser(ApplyLines(User, lines))
    /\ Invalidate(Syms)
    /\ last' = [op |-> "load_config", replace |-> replace, names |-> FileNames(lines),
                written |-> conf_file.written /\ lines = conf_file.lines,
                user |-> user_val, val |-> [s \in Syms |-> Evaluated(Cache).val[s]]]
    /\ UNCHANGED <<kconf, conf_file>>

\* Config.load_config(file, replace)
load_config(lines, replace) ==
    /\ SetUser(ApplyLines(IF replace THEN NoUser ELSE User, lines))
    /\ Invalidate(Syms)
    /\ last' = [op |-> "load_config", replace |-> replace, names |-> FileNames(lines),
                written |-> conf_file.written /\ lines = conf_file.lines,
                user |-> user_val, val |-> [s \in Syms |-> Evaluated(Cache).val[s]]]
    /\ UNCHANGED <<kconf, conf_file>>

\* Symbol.write_to_conf, as get_value() leaves it
WriteToConf(s, env) ==
    IF IsTri(s) /\ IsChoiceSym(s)
    THEN env.vis[s] # N /\ ComputeMode(SymOf(s).choice, env) # N
    ELSE IF IsTri(s)
         THEN \/ env.vis[s] # N
              \/ EvalExpr(SymOf(s).rev_dep, env) # 0
              \/ ActiveDefault(s, env) # 0
              \/ EvalExpr(SymOf(s).weak_rev_dep, env) # 0
    ELSE IF SymOf(s).type = "string" THEN env.vis[s] # N \/ ActiveDefault(s, env) # 0
    ELSE \/ env.vis[s] # N /\ env.val[s] = user_val[s]
         \/ ActiveDefault(s, env) # 0

\* The line write_config writes for a symbol whose value is v
ConfLine(s, v) ==
    IF IsTri(s) THEN (IF v = N THEN UnsetLine(s) ELSE SetLine(s, v))
    ELSE IF SymOf(s).type = "string" THEN SetLine(s, <<DQ>> \o Escape(v) \o <<DQ>>)
    ELSE SetLine(s, v)

RECURSIVE ConfLines(_, _)
ConfLines(syms, env) ==
    IF syms = <<>> THEN <<>>
    ELSE (IF WriteToConf(Head(syms), env)
          THEN <<ConfLine(Head(syms), env.val[Head(syms)])>> ELSE <<>>)
         \o ConfLines(Tail(syms), env)

\* Config.write_config(): it asks every symbol for its value
WriteFile(env) ==
    conf_file' = [written |-> TRUE, lines |-> ConfLines(kconf.syms, env),
                  vals |-> [s \in Syms |-> env.val[s]]]

write_config ==
    /\ WriteFile(Evaluated(Cache))
    /\ FillCaches({<<"val", s>> : s \in Syms})
    /\ last' = [op |-> "write_config"]
    /\ UNCHANGED <<kconf, user_val, ch_user_val, ch_user_mode>>


\* One table of symbols for all instances: every instance finds the
\* symbols that c1 registered
LookupShared(c, name) == name

\* c[name]: the symbol the instance c registered under the name
Lookup(c, name) == Object(c, name)

\* The lines of a file applied in order by the instance c, which looks the
\* names up among its own symbols
RECURSIVE ApplyLinesOf(_, _, _)
ApplyLinesOf(c, u, lines) ==
    IF lines = <<>> THEN u
    ELSE LET line == Head(lines)
             next == IF Lookup(c, line.name) \in Syms /\ ~Malformed(line.val)
                     THEN Assign(u, Lookup(c, line.name), LineVal(line)) ELSE u
         IN  ApplyLinesOf(c, next, Tail(lines))

\* What the instance c answers: the user values of its symbols, their values
\* and visibilities, and the modes and selections of its choices
AnswersOf(c) ==
    [user |-> [s \in Syms \cap kconf.config[c] |-> user_val[s]],
     val |-> [s \in Syms \cap kconf.config[c] |-> Evaluated(Cache).val[s]],
     vis |-> [s \in Syms \cap kconf.config[c] |-> Evaluated(Cache).vis[s]],
     mode |-> [ch \in Choices \cap kconf.config[c] |->
                  ComputeMode(ch, Evaluated(Cache))],
     sel |-> [ch \in Choices \cap kconf.config[c] |-> GetSelection(ch, Cache)]]

\* The user values without those of the symbols and choices of c
NoUserOf(c) ==
    <<[s \in Syms |-> IF s \in kconf.config[c] THEN None ELSE user_val[s]],
      [ch \in Choices |-> IF ch \in kconf.config[c] THEN Nil ELSE ch_user_val[ch]],
      [ch \in Choices |-> IF ch \in kconf.config[c] THEN None ELSE ch_user_mode[ch]]>>

\* Config.load_config(filename, replace) of the instance c, where several
\* instances exist: the symbols it unsets, assigns and invalidates are its own
load_config_of(c, lines, replace) ==
    /\ SetUser(ApplyLinesOf(c, IF replace THEN NoUserOf(c) ELSE User, lines))
    /\ Invalidate(Syms \cap kconf.config[c])
    /\ last' = [op |-> "load_config", config |-> c, replace |-> replace,
                other |-> [d \in Instances \ {c} |-> AnswersOf(d)]]
    /\ UNCHANGED <<kconf, conf_file>>

\* get_config() of a symbol, a choice, a menu or a comment: the answer is
\* recorded in last
get_config(e) ==
    /\ last' = [op |-> "get_config", object |-> e,
                res |-> CHOOSE c \in Instances : e \in kconf.config[c]]
    /\ UNCHANGED <<kconf, user_val, cached_val, cached_vis, ch_user_val,
                   ch_user_mode, ch_cached_sel, ch_cached_vis, conf_file>>

----------------------------------------------------------------------------
(* The state machine *)

\* Config(filename): a fresh instance, nothing assigned and nothing cached
Config(k) ==
    /\ kconf = k
    /\ user_val = [s \in Range(k.syms) |-> None]
    /\ cached_val = [s \in Range(k.syms) |-> IF IsSpecial(s) THEN <<s>> ELSE None]
    /\ cached_vis = [s \in Range(k.syms) |-> None]
    /\ ch_user_val = [ch \in Range(k.choices) |-> Nil]
    /\ ch_user_mode = [ch \in Range(k.choices) |-> None]
    /\ ch_cached_sel = [ch \in Range(k.choices) |-> Nil]
    /\ ch_cached_vis = [ch \in Range(k.choices) |-> None]
    /\ conf_file = [written |-> FALSE, lines |-> <<>>, vals |-> <<>>]
    /\ last = [op |-> "Config"]

\* What a caller does with the symbols of a Config
SymNext ==
    \/ \E a \in Assigned(kconf.file) : a[1] \in Syms /\ set_user_value(a[1], a[2])
    \/ \E s \in Syms : unset_user_value(s)
    \/ unset_user_values
    \/ \E f \in ConfigFiles(kconf.file), r \in BOOLEAN : load_config(f, r)
    \/ \E s \in Syms : get_value(s)
    \/ \E s \in Syms : get_visibility(s)

\* ... and with its choices
Next ==
    \/ SymNext
    \/ \E ch \in Choices : get_mode(ch)
    \/ \E ch \in Choices : get_selection(ch)

\* ... and with .config files it writes
ConfNext ==
    \/ \E a \in Assigned(kconf.file) : a[1] \in Syms /\ set_user_value(a[1], a[2])
    \/ \E f \in ConfigFiles(kconf.file), r \in BOOLEAN : load_config(f, r)
    \/ \E s \in Syms : get_value(s)
    \/ write_config
    \/ \E r \in BOOLEAN : conf_file.written /\ load_config(conf_file.lines, r)

\* The symbols and choices of tests/Kvisibility and tests/Kchoice, and the
\* dependent range of tests/Krange
Init == \E k \in KvisibilityParts \cup KchoiceParts \cup {KrangeDependent} : Config(k)

Spec == Init /\ [][Next]_vars

\* The symbols of tests/Kmisc
InitMisc == \E k \in KmiscParts : Config(k)

SpecMisc == InitMisc /\ [][SymNext]_vars

\* The int and hex symbols of tests/Krange
InitRange == \E k \in KrangeParts : Config(k)

SpecRange == InitRange /\ [][SymNext]_vars

\* Writing and loading .config files: tests/Kappend and tests/Kescape
InitConf == \E k \in KappendParts \cup KescapeParts : Config(k)

SpecConf == InitConf /\ [][ConfNext]_vars

\* What a caller asks of the symbols of a Config
QueryNext ==
    \/ \E a \in Assigned(kconf.file) : a[1] \in Syms /\ set_user_value(a[1], a[2])
    \/ \E s \in Syms : get_value(s)
    \/ \E s \in Syms : get_visibility(s)
    \/ \E s \in Syms : is_modifiable(s)
    \/ \E ch \in Choices : choice_get_visibility(ch)
    \/ \E i \in Items : item_get_visibility(i)
    \/ \E x \in EvalInputs(kconf.file) : Ids(x) \subseteq Syms /\ eval(x)

\* The symbols of tests/Kmodifiable and of tests/Keval, and the symbols,
\* choices, menus and comments of tests/Kvisibility
InitQuery ==
    \E k \in KmodifiableParts \cup KvisibilityParts \cup KvisibilityQueryParts
              \cup KevalParts :
        Config(k)

SpecQuery == InitQuery /\ [][QueryNext]_vars

\* What a caller does with the symbols whose dependent sets it asks for
DepNext ==
    \/ \E a \in Assigned(kconf.file) : a[1] \in Syms /\ set_user_value(a[1], a[2])
    \/ \E s \in Syms : get_value(s)
    \/ \E s \in Syms : get_dependent(s)

InitDep == \E k \in KdepParts : Config(k)

SpecDep == InitDep /\ [][DepNext]_vars

\* What a caller does with the symbols whose bounds it asks for
BoundsNext ==
    \/ \E a \in Assigned(kconf.file) : a[1] \in Syms /\ set_user_value(a[1], a[2])
    \/ unset_user_values
    \/ \E f \in ConfigFiles(kconf.file), r \in BOOLEAN : load_config(f, r)
    \/ \E s \in Syms : get_value(s)
    \/ \E s \in Syms : get_bounds(s)

InitBounds == \E k \in KboundsParts : Config(k)

SpecBounds == InitBounds /\ [][BoundsNext]_vars

\* What a caller does with two instances
TwoNext ==
    \/ \E s \in {"BOOL", "OPT_B", "BOOL/2", "OPT_B/2"} : set_user_value(s, Y)
    \/ \E s \in Syms : unset_user_value(s)
    \/ \E c \in Instances, r \in BOOLEAN : load_config_of(c, <<SetLine("BOOL", Y)>>, r)
    \/ \E s \in {"BOOL", "BOOL/2"} : get_value(s)
    \/ \E e \in {"BOOL", "BOOL/2", "CHOICE", "CHOICE/2", "menu", "menu/2", "comment",
                  "comment/2"} : get_config(e)

InitTwo == Config(TwoConfigs)

SpecTwo == InitTwo /\ [][TwoNext]_vars

\* What a caller asks of the library without a symbol: the comparisons of
\* tri-state values, and the tokens of a text
LibNext ==
    \/ \E fn \in TriFunctions, v1 \in {N, M, Y}, v2 \in {N, M, Y} :
           tri_compare(fn, v1, v2)
    \/ \E s \in LexTexts(MaxLexLen) : tokenize(s)

\* tests/empty: a Config without symbols
InitLib == Config(Part("empty", <<>>, <<>>))

SpecLib == InitLib /\ [][LibNext]_vars

----------------------------------------------------------------------------
(* Cached answers and invalidation *)

\* The answers a give, for every symbol and every choice, what the answers b
\* give
SameAnswers(a, b) ==
    /\ \A s \in Syms : a.val[s] = b.val[s] /\ a.vis[s] = b.vis[s]
    /\ \A ch \in Choices :
           /\ a.sel[ch] = b.sel[ch]
           /\ a.cvis[ch] = b.cvis[ch]
           /\ ComputeMode(ch, a) = ComputeMode(ch, b)

\* C1: in every state reached by set_user_value, unset_user_value,
\* unset_user_values, load_config and queries, get_value() and
\* get_visibility() of every symbol and get_mode() and get_selection() of
\* every choice answer from the caches what an evaluation from scratch over
\* the current user values answers: no cached entry is stale.
CachesAreFresh == SameAnswers(Evaluated(Cache), Evaluated(NoCache))

\* The value of the symbol whose range depends on INT_RANGE_10_20 is cached
\* and follows the user value of INT_RANGE_10_20
FreshDependentCached ==
    /\ "INT_RANGE_10_40_DEPENDENT" \in Syms
    /\ last.op = "set_user_value"
    /\ last.sym = "INT_RANGE_10_20"
    /\ user_val["INT_RANGE_10_20"] = S15
    /\ cached_val["INT_RANGE_10_40_DEPENDENT"] = S15

----------------------------------------------------------------------------
(* Promotion *)

\* No answer of env is m
NoModule(env) ==
    /\ \A s \in Syms : env.vis[s] # M /\ (IsTri(s) => env.val[s] # M)
    /\ \A ch \in Choices : ComputeMode(ch, env) # M

ModulesOff(env) == ModulesVal(env) = 0

\* C2: in every state in which MODULES evaluates to n, no symbol has
\* visibility m, no bool or tristate symbol has value m and no choice has
\* mode m.
NoModuleWithoutModules ==
    ModulesOff(Evaluated(Cache)) => NoModule(Evaluated(Cache))

\* With MODULES n, a visible tristate with user value m has value y
PromotedUserM ==
    /\ "TRISTATE_MOD" \in Syms
    /\ user_val["MODULES"] = N
    /\ user_val["TRISTATE_MOD"] = M
    /\ cached_vis["TRISTATE_MOD"] = Y
    /\ cached_val["TRISTATE_MOD"] = Y

----------------------------------------------------------------------------
(* Invalid user values *)

\* The answers a and b give every symbol the same value
SameValues(a, b) == \A s \in Syms : a.val[s] = b.val[s]

\* The values the tests take to be invalid: for a bool anything but n and y,
\* for a tristate anything but n, m and y, for an int or a hex what is no
\* number
InvalidFor(type, v) ==
    \/ type = "bool" /\ v \notin {N, Y}
    \/ type = "tristate" /\ v \notin {N, M, Y}
    \/ type = "int" /\ ~IsBaseN(v, 10)
    \/ type = "hex" /\ ~IsBaseN(v, 16)

\* C3: a set_user_value with a value that is invalid for the type of the
\* symbol leaves every user value as it was before the call and changes no
\* symbol's computed value.
InvalidValueRejected ==
    [][(last'.op = "set_user_value"
           /\ InvalidFor(SymOf(last'.sym).type, last'.val))
          => /\ user_val' = user_val
             /\ SameValues(Evaluated(Cache), Evaluated(Cache)')]_vars

\* BOOL has the user value y and was then assigned m, foo or 1
InvalidAssignedToBool ==
    /\ "BOOL" \in Syms
    /\ last.op = "set_user_value"
    /\ last.sym = "BOOL"
    /\ last.val \in {M, Foo, S1}
    /\ user_val["BOOL"] = Y

----------------------------------------------------------------------------
(* Choices *)

\* The most recent call was set_user_value("y") on a member of a choice
SelectedLast ==
    /\ last.op = "set_user_value"
    /\ last.val = Y
    /\ IsChoiceSym(last.sym)

\* The choice is in mode y and the member s is its selection and its user
\* selection
IsSelection(s, ch, env) ==
    /\ ComputeMode(ch, env) = Y
    /\ env.sel[ch] = s
    /\ ch_user_val[ch] = s

\* The case of "a visible choice with modules enabled"
VisibleWithModules(ch, env) == ModulesVal(env) = 2 /\ env.cvis[ch] # N

\* The case of a choice and a member of it that both have visibility y
BothVisibleY(s, ch, env) == env.cvis[ch] = Y /\ env.vis[s] = Y

\* C4 as stated: for a visible choice with modules enabled, after
\* set_user_value("y") on a member the choice is in mode y and the member is
\* its selection and its user selection.
LastSelectedOfVisible ==
    (SelectedLast /\ VisibleWithModules(SymOf(last.sym).choice, Evaluated(Cache)))
        => IsSelection(last.sym, SymOf(last.sym).choice, Evaluated(Cache))

\* C4 amended: for a choice with visibility y and modules enabled, after
\* set_user_value("y") on a member with visibility y the choice is in mode y
\* and the member is its selection and its user selection, whatever was
\* selected before.
LastSelectedOfVisibleY ==
    (SelectedLast
        /\ VisibleWithModules(SymOf(last.sym).choice, Evaluated(Cache))
        /\ BothVisibleY(last.sym, SymOf(last.sym).choice, Evaluated(Cache)))
        => IsSelection(last.sym, SymOf(last.sym).choice, Evaluated(Cache))

\* B_1 was selected after B_2 had been, with modules enabled
SelectedAfterSibling ==
    /\ "B_1" \in Syms
    /\ SelectedLast
    /\ last.sym = "B_1"
    /\ user_val["B_2"] = Y
    /\ user_val["MODULES"] = Y
    /\ ch_cached_sel["BOOL"] = "B_1"

\* The defaults of a choice whose condition is true, and those whose member
\* is visible too; the visible members
TrueDefaults(ch, env) ==
    {i \in 1..Len(ChoiceOf(ch).def_exprs) :
        EvalExpr(ChoiceOf(ch).def_exprs[i][2], env) # 0}
VisibleDefaults(ch, env) ==
    {i \in TrueDefaults(ch, env) : env.vis[ChoiceOf(ch).def_exprs[i][1]] # N}
VisibleMembers(ch, env) ==
    {i \in 1..Len(ChoiceOf(ch).syms) : env.vis[ChoiceOf(ch).syms[i]] # N}

\* The member the user selected, while its visibility is y
UserSelection(ch, env) ==
    IF ch_user_val[ch] # Nil /\ env.vis[ch_user_val[ch]] = Y
    THEN ch_user_val[ch] ELSE Nil

\* The selection as C5 states it: the user's, else the member of the first
\* default whose condition is true, else for a choice that is not optional
\* the first visible member
StatedSelection(ch, env) ==
    IF UserSelection(ch, env) # Nil THEN UserSelection(ch, env)
    ELSE IF TrueDefaults(ch, env) # {}
         THEN ChoiceOf(ch).def_exprs[First(TrueDefaults(ch, env))][1]
    ELSE IF ~ChoiceOf(ch).optional /\ VisibleMembers(ch, env) # {}
         THEN ChoiceOf(ch).syms[First(VisibleMembers(ch, env))]
    ELSE Nil

DefaultRule(ch, env) ==
    IF VisibleDefaults(ch, env) # {}
    THEN ChoiceOf(ch).def_exprs[First(VisibleDefaults(ch, env))][1]
    ELSE IF VisibleMembers(ch, env) # {}
         THEN ChoiceOf(ch).syms[First(VisibleMembers(ch, env))]
    ELSE Nil

\* The selection of a choice in mode y: the user's, else none for an
\* optional choice, else what the default rule gives; none in another mode
ModeYSelection(ch, env) ==
    IF ComputeMode(ch, env) # Y THEN Nil
    ELSE IF UserSelection(ch, env) # Nil THEN UserSelection(ch, env)
    ELSE IF ChoiceOf(ch).optional THEN Nil
    ELSE DefaultRule(ch, env)

----------------------------------------------------------------------------
(* Loading .config files *)

\* The most recent call was load_config with the given replace.  It recorded
\* in last.user and last.val the user values and the computed values from
\* before the call.
Loaded(l, replace) == l.op = "load_config" /\ l.replace = replace

\* The symbols of S have the user value and the computed value they had
\* before the most recent load_config
Kept(S, env) == \A s \in S : user_val[s] = last.user[s] /\ env.val[s] = last.val[s]
KeptUserValues(S) == \A s \in S : user_val[s] = last.user[s]

\* C6 as stated: load_config(file, replace=False) leaves the user value and
\* the computed value of every symbol that the file does not name as they
\* were before the call.
MergeKeepsOthers ==
    Loaded(last, FALSE) => Kept(Syms \ last.names, Evaluated(Cache))

\* C6 amended: load_config(file, replace=False) leaves the user value of
\* every symbol that the file does not name as it was before the call, and
\* its computed value too unless the symbol depends on a symbol that the
\* file names.
MergeKeepsIndependent ==
    Loaded(last, FALSE)
        => /\ KeptUserValues(Syms \ last.names)
           /\ Kept(Syms \ DepClosure(Syms \cap last.names), Evaluated(Cache))

\* A file that names INT_RANGE_10_20 only was merged into a Config in which
\* INT_RANGE_0_10 has a user value
MergedOverUserValue ==
    /\ "INT_RANGE_0_10" \in Syms
    /\ Loaded(last, FALSE)
    /\ "INT_RANGE_0_10" \notin last.names
    /\ last.names # {}
    /\ user_val["INT_RANGE_0_10"] = S9

\* The value of a symbol that has no usable user value: what its defaults,
\* its ranges and the symbols selecting it give
DefaultDerived(s, env) ==
    CASE SymOf(s).type = "string" -> DefaultStr(s, env)
      [] SymOf(s).type \in {"int", "hex"} ->
             NumValue(SymOf(s).type, N, None,
                      ActiveRange(s, env) # 0, RangeBound(s, 1, env), RangeBound(s, 2, env),
                      ActiveDefault(s, env) # 0, DefaultStr(s, env))
      [] IsTri(s) ->
             TriStr(Promote(TriValue(s, 0,
                                     DefaultTri(SymOf(s).def_exprs, ActiveDefault(s, env), env),
                                     EvalExpr(SymOf(s).weak_rev_dep, env),
                                     EvalExpr(SymOf(s).rev_dep, env)),
                            env))

\* The symbols of S have no user value and their default-derived value
Cleared(S, env) ==
    \A s \in S : user_val[s] = None /\ env.val[s] = DefaultDerived(s, env)

\* C7: after load_config(file) in the default replace mode every symbol that
\* the file does not assign has no user value and has its default-derived
\* computed value; after loading a file without assignments no symbol has a
\* user value.
ReplaceClearsOthers ==
    Loaded(last, TRUE)
        => /\ Cleared(Syms \ last.names, Evaluated(Cache))
           /\ last.names = {} => \A s \in Syms : user_val[s] = None

\* config_set_string was loaded in replace mode into a Config in which BOOL
\* had the user value y: BOOL is back to n
ReplacedUserValue ==
    /\ kconf.file = "Kappend"
    /\ Loaded(last, TRUE)
    /\ last.names = {"STRING"}
    /\ last.user["BOOL"] = Y
    /\ user_val["STRING"] = Foo
    /\ cached_val["BOOL"] = N

----------------------------------------------------------------------------
(* Strings in .config files *)

\* A string with every backslash and every double quote prefixed by one
\* backslash
RECURSIVE Prefixed(_)
Prefixed(v) ==
    IF v = <<>> THEN <<>>
    ELSE (IF Head(v) \in {BSL, DQ} THEN <<BSL, Head(v)>> ELSE <<Head(v)>>)
         \o Prefixed(Tail(v))

StringSyms == {s \in Syms : SymOf(s).type = "string"}

\* The lines of the written file that assign a string symbol
StringLines(lines) == {i \in 1..Len(lines) : lines[i].name \in StringSyms}

\* Line i of the written file holds, inside double quotes, the value its
\* symbol had, every backslash and every double quote prefixed
WrittenPrefixed(line, vals) ==
    line.val = <<DQ>> \o Prefixed(vals[line.name]) \o <<DQ>>

\* The symbols of S have the value they had when the file was written
KeptWritten(S, env) == \A s \in S : env.val[s] = conf_file.vals[s]

\* C8: write_config writes a string value inside double quotes with each
\* backslash and each double quote prefixed by one backslash, and after
\* load_config of the written file every string symbol has exactly the value
\* it had when the file was written.
StringRoundTrip ==
    /\ conf_file.written
           => \A i \in StringLines(conf_file.lines) :
                  WrittenPrefixed(conf_file.lines[i], conf_file.vals)
    /\ (last.op = "load_config" /\ last.written)
           => KeptWritten(StringSyms, Evaluated(Cache))

\* The file written while STRING was a backslash and a double quote was
\* loaded after STRING had been given another value
RoundTripOfUserString ==
    /\ kconf.file = "Kescape"
    /\ last.op = "load_config" /\ last.written
    /\ conf_file.vals["STRING"] = <<BSL, DQ>>
    /\ last.user["STRING"] = <<SQ>>
    /\ cached_val["STRING"] = <<BSL, DQ>>

----------------------------------------------------------------------------
(* Ranges of int and hex symbols *)

\* The int and hex symbols that have an active range
RangedSyms(env) ==
    {s \in Syms : SymOf(s).type \in {"int", "hex"} /\ ActiveRange(s, env) # 0}

\* The number n, written as str, confined to [low, high]: the bound it
\* violates, else str itself
Confined(type, str, n, low, high) ==
    IF n < low THEN Fmt(type, low)
    ELSE IF n > high THEN Fmt(type, high)
    ELSE str

ConfinedStr(type, str, low, high) ==
    Confined(type, str, ParseInt(str, NumBase(type)), low, high)

Within(type, str, low, high) ==
    /\ low <= ParseInt(str, NumBase(type))
    /\ ParseInt(str, NumBase(type)) <= high

\* The rule as stated: the chosen value is the user value, else the default,
\* and the value is the chosen value confined to the range
ChosenConfined(type, val, user, has_default, dstr, low, high) ==
    IF user # None THEN val = ConfinedStr(type, user, low, high)
    ELSE has_default => val = ConfinedStr(type, dstr, low, high)

\* The rule of the code: a user value outside of the range is ignored, the
\* default is confined to the range
DefaultConfined(type, val, user, has_default, dstr, low, high) ==
    IF user # None /\ Within(type, user, low, high) THEN val = user
    ELSE has_default => val = ConfinedStr(type, dstr, low, high)

\* C9 as stated: the value of an int or hex symbol with an active range
\* [low, high] is its chosen value (user value or default) when that is
\* within the range, else the bound the chosen value violates.
ChosenValueClamped ==
    \A s \in RangedSyms(Evaluated(Cache)) :
        ChosenConfined(SymOf(s).type, GetValue(s, Cache), user_val[s],
                       ActiveDefault(s, Evaluated(Cache)) # 0,
                       DefaultStr(s, Evaluated(Cache)),
                       RangeBound(s, 1, Evaluated(Cache)),
                       RangeBound(s, 2, Evaluated(Cache)))

\* C9 amended: the value of an int or hex symbol with an active range
\* [low, high] is its user value when that is within the range; a user value
\* outside of the range is ignored, and the value is then, as without a user
\* value, the default when that is within the range, else the bound the
\* default violates.
DefaultClamped ==
    \A s \in RangedSyms(Evaluated(Cache)) :
        DefaultConfined(SymOf(s).type, GetValue(s, Cache), user_val[s],
                        ActiveDefault(s, Evaluated(Cache)) # 0,
                        DefaultStr(s, Evaluated(Cache)),
                        RangeBound(s, 1, Evaluated(Cache)),
                        RangeBound(s, 2, Evaluated(Cache)))

\* HEX_RANGE_10_20_HIGH_DEFAULT was assigned 9, below its range, and its
\* value was asked for: it is the clamped default
LowUserValueIgnored ==
    /\ "HEX_RANGE_10_20_HIGH_DEFAULT" \in Syms
    /\ user_val["HEX_RANGE_10_20_HIGH_DEFAULT"] = S9
    /\ cached_val["HEX_RANGE_10_20_HIGH_DEFAULT"] = X20

\* The value of a symbol without user value and without default is the low
\* bound when nonzero holds of it, else empty
LowOrEmpty(type, val, low, nonzero) ==
    val = IF nonzero THEN Fmt(type, low) ELSE <<>>

Undefaulted(env) ==
    {s \in RangedSyms(env) : user_val[s] = None /\ ActiveDefault(s, env) = 0}

\* C10 as stated: an int or hex symbol without user value and without default
\* but with an active range [low, high] has the value low if low is not zero,
\* else the empty value.
LowUnlessZero ==
    \A s \in Undefaulted(Evaluated(Cache)) :
        LowOrEmpty(SymOf(s).type, GetValue(s, Cache),
                   RangeBound(s, 1, Evaluated(Cache)),
                   RangeBound(s, 1, Evaluated(Cache)) # 0)

\* C10 amended: an int or hex symbol without user value and without default
\* but with an active range [low, high] has the value low if low is greater
\* than zero, else the empty value.
LowIfPositive ==
    \A s \in Undefaulted(Evaluated(Cache)) :
        LowOrEmpty(SymOf(s).type, GetValue(s, Cache),
                   RangeBound(s, 1, Evaluated(Cache)),
                   RangeBound(s, 1, Evaluated(Cache)) > 0)

\* The value of INT_RANGE_NEG_10_10, never assigned, was asked for: it is
\* empty
NegativeLowGivesEmpty ==
    /\ "INT_RANGE_NEG_10_10" \in Syms
    /\ user_val["INT_RANGE_NEG_10_10"] = None
    /\ cached_val["INT_RANGE_NEG_10_10"] = <<>>

\* The value val of a symbol whose user value is a number outside of
\* [low, high] is other, not the user value
OutsideGives(type, val, user, low, high, other) ==
    (user # None /\ IsBaseN(user, NumBase(type)) /\ ~Within(type, user, low, high))
        => val = other /\ val # user

\* C11: an int or hex symbol with an active range [low, high] that was
\* assigned a user value outside of the range has the value it has without a
\* user value (its clamped default, the low bound or the empty value), not
\* the assigned value, also when the bounds are values of other symbols.
OutsideUserValueFallsBack ==
    \A s \in RangedSyms(Evaluated(Cache)) :
        OutsideGives(SymOf(s).type, GetValue(s, Cache), user_val[s],
                     RangeBound(s, 1, Evaluated(Cache)),
                     RangeBound(s, 2, Evaluated(Cache)),
                     DefaultDerived(s, Evaluated(Cache)))

\* INT_RANGE_10_40_DEPENDENT was assigned 9 while its low bound, the value of
\* INT_RANGE_10_20, is 15: its value is 15
DependentFallsBack ==
    /\ "INT_RANGE_10_40_DEPENDENT" \in Syms
    /\ user_val["INT_RANGE_10_20"] = S15
    /\ user_val["INT_RANGE_10_40_DEPENDENT"] = S9
    /\ cached_val["INT_RANGE_10_40_DEPENDENT"] = S15

\* The most recent call was set_user_value on an int or hex symbol, with a
\* number of the symbol's base
AssignedNumber ==
    /\ last.op = "set_user_value"
    /\ SymOf(last.sym).type \in {"int", "hex"}
    /\ IsBaseN(last.val, NumBase(SymOf(last.sym).type))

\* The symbol s holds v as its user value; v is its visible value too when
\* there is no active range or v is within it
Verbatim(s, v, env) ==
    /\ user_val[s] = v
    /\ (env.vis[s] # N
          /\ (ActiveRange(s, env) = 0
                \/ Within(SymOf(s).type, v, RangeBound(s, 1, env), RangeBound(s, 2, env))))
           => env.val[s] = v

\* C12: set_user_value on an int or hex symbol with a number stores the
\* string as assigned, with or without 0x for a hex symbol, whether or not
\* the number is within the active range; the value of a visible symbol is
\* that same string when the number is within the range.
NumberStoredVerbatim ==
    AssignedNumber => Verbatim(last.sym, last.val, Evaluated(Cache))

\* HEX_RANGE_10_20 was assigned 15, without 0x, and its value was asked for
HexWithoutPrefixKept ==
    /\ "HEX_RANGE_10_20" \in Syms
    /\ AssignedNumber
    /\ last.sym = "HEX_RANGE_10_20"
    /\ last.val = S15
    /\ cached_val["HEX_RANGE_10_20"] = S15

----------------------------------------------------------------------------
(* Selects *)

\* The bool/tristate symbols outside of choices
PlainTri == {s \in Syms : IsTri(s) /\ ~IsChoiceSym(s)}

\* The value of s is at least what its selectors force: the greatest, over
\* the selects that target it, of min(selector, condition)
AtLeastSelected(s, env) ==
    TriNum(env.val[s]) >= EvalExpr(SymOf(s).rev_dep, env)

\* is_modifiable() answered res for a symbol of the type with visibility vis
\* that is selected to rev
ModifiableAsSelected(type, vis, rev, res) ==
    /\ rev = 2 => ~res
    /\ (type = "bool" /\ rev = 1) => ~res
    /\ (type = "tristate" /\ vis = M /\ rev = 1) => ~res
    /\ (type = "tristate" /\ vis = Y /\ rev = 1) => res

AskedModifiable == last.op = "is_modifiable" /\ last.sym \in PlainTri

\* C13: the value of a bool/tristate symbol outside of a choice is at least
\* min(selector, condition) for every select that targets it, whatever its
\* visibility; a symbol selected to y, a bool selected to m and a tristate
\* of visibility m selected to m are not modifiable, a tristate of
\* visibility y selected to m is.
SelectForcesValue ==
    /\ \A s \in PlainTri : AtLeastSelected(s, Evaluated(Cache))
    /\ AskedModifiable
           => ModifiableAsSelected(SymOf(last.sym).type,
                                   Evaluated(Cache).vis[last.sym],
                                   EvalExpr(SymOf(last.sym).rev_dep, Evaluated(Cache)),
                                   last.res)

\* HIDDEN_SELECTED, which has no prompt, has the value m of its selector, and
\* is_modifiable() was asked of it
HiddenSelectedToM ==
    /\ "HIDDEN_SELECTED" \in Syms
    /\ AskedModifiable
    /\ last.sym = "HIDDEN_SELECTED"
    /\ ~last.res
    /\ cached_vis["HIDDEN_SELECTED"] = N
    /\ cached_val["HIDDEN_SELECTED"] = M

----------------------------------------------------------------------------
(* Visibility *)

\* The condition under which prompt i of s is shown: its own condition (with
\* the dependencies of the enclosing menus and ifs) and, for a member of a
\* choice, the visibility of the choice
ShownIf(s, i, env) ==
    Min(EvalExpr(SymOf(s).prompts[i], env),
        IF IsChoiceSym(s) THEN TriNum(env.cvis[SymOf(s).choice]) ELSE 2)

\* The greatest of these conditions, n without prompts, with m promoted to y
\* for a symbol that is no tristate and without modules
MaxOverPrompts(s, env) ==
    LET t == MaxOf({ShownIf(s, i, env) : i \in 1..Len(SymOf(s).prompts)})
    IN  IF t = 1 /\ (SymOf(s).type # "tristate" \/ ModulesVal(env) # 2) THEN Y
        ELSE TriStr(t)

VisibilityIsMaxOverPrompts(env) ==
    \A s \in Syms :
        /\ env.vis[s] = MaxOverPrompts(s, env)
        /\ SymOf(s).prompts = <<>> => env.vis[s] = N

RawCond(s, env) ==
    Min(PromptsVal(SymOf(s).prompts, env),
        IF IsChoiceSym(s) THEN PromptsVal(ChoiceOf(SymOf(s).choice).prompts, env)
        ELSE 2)

\* The expression is the constant m, or a conjunction with the constant m
RECURSIVE OnM(_)
OnM(e) == e = ConstM \/ (e[1] = "and" /\ (OnM(e[2]) \/ OnM(e[3])))

SomeOnM(prompts) == \E i \in 1..Len(prompts) : OnM(prompts[i])

\* s or its choice has a prompt that depends on the constant m
DependsOnM(s) ==
    \/ SomeOnM(SymOf(s).prompts)
    \/ IsChoiceSym(s) /\ SomeOnM(ChoiceOf(SymOf(s).choice).prompts)

\* The bool/tristate symbols other than MODULES itself
Gated == {s \in Syms : IsTri(s) /\ s # "MODULES"}

\* m for a tristate, y for a bool
PromotedM(type) == IF type = "tristate" THEN M ELSE Y

\* With modules: a condition of m gives a bool symbol or choice visibility
\* y and a tristate one visibility m
WithModules(env) ==
    ModulesVal(env) = 2 =>
        /\ \A s \in Gated :
               RawCond(s, env) = 1 => env.vis[s] = PromotedM(SymOf(s).type)
        /\ \A ch \in Choices :
               PromptsVal(ChoiceOf(ch).prompts, env) = 1
                   => env.cvis[ch] = PromotedM(ChoiceOf(ch).type)

\* Without modules: a condition on the constant m gives visibility n
WithoutModules(env) ==
    ModulesVal(env) = 0 =>
        /\ \A s \in Gated : DependsOnM(s) => env.vis[s] = N
        /\ \A ch \in Choices : SomeOnM(ChoiceOf(ch).prompts) => env.cvis[ch] = N

\* Without modules the value of MOD is y, and so is the visibility of the
\* symbols whose prompt depends on MOD
OnModWithoutModules(env) ==
    ModulesVal(env) = 0 =>
        \A s \in Gated \cap {"BOOL_MOD", "TRISTATE_MOD"} : env.vis[s] = Y

\* A menu or comment that depends on the constant m has visibility m with
\* modules and n without, whatever was asked last
ItemsNotPromoted(env) ==
    /\ \A i \in Items :
           OnM(ItemOf(i).dep)
               => ItemVisibility(i, env) = IF ModulesVal(env) = 2 THEN M ELSE N
    /\ (last.op = "get_visibility" /\ OnM(ItemOf(last.item).dep))
           => last.res = IF ModulesVal(env) = 2 THEN M ELSE N

PromotionOfVisibility(env) ==
    /\ WithModules(env)
    /\ WithoutModules(env)
    /\ OnModWithoutModules(env)
    /\ ItemsNotPromoted(env)

\* MODULES is y and is assigned n in this step
ModulesSwitchedOff(env) ==
    /\ ModulesVal(env) = 2
    /\ last'.op = "set_user_value"
    /\ last'.sym = "MODULES"
    /\ last'.val = N

\* The symbols whose condition is m while modules are enabled
GatedByM(env) == {s \in Gated : RawCond(s, env) = 1}

\* C15 as stated: with modules a bool symbol or choice whose condition
\* evaluates to m has visibility y and a tristate one m, and once modules are
\* disabled both have visibility n; menus and comments that depend on m have
\* visibility m with modules and n without.
HiddenWithoutModules ==
    [][/\ WithModules(Evaluated(Cache))
       /\ ItemsNotPromoted(Evaluated(Cache))
       /\ ModulesSwitchedOff(Evaluated(Cache))
              => \A s \in GatedByM(Evaluated(Cache)) : Evaluated(Cache)'.vis[s] = N]_vars

\* C15: with modules a bool symbol or choice whose condition evaluates to m
\* has visibility y and a tristate one m; without modules both have
\* visibility n if the condition depends on the constant m, and visibility y
\* if it is the symbol MOD, whose value m is y without modules; menus and
\* comments that depend on m have visibility m with modules and n without.
VisibilityPromotedForBool == PromotionOfVisibility(Evaluated(Cache))

\* Modules were switched off by the user: the value of MOD is y, and
\* BOOL_MOD, which has visibility y with modules, has visibility y
ModVisibleWithoutModules ==
    /\ "BOOL_MOD" \in Syms
    /\ user_val["MODULES"] = N
    /\ cached_val["MODULES"] = N
    /\ cached_val["MOD"] = Y
    /\ cached_vis["BOOL_MOD"] = Y

----------------------------------------------------------------------------
(* Config.eval *)

\* The text "(Y || N) && (m && y)"
YOrNAndMAndY ==
    <<Op("("), Id("Y"), Op("||"), Id("N"), Op(")"), Op("&&"),
      Op("("), Word(M), Op("&&"), Word(Y), Op(")")>>

\* The constants n, m, y, quoted or not, evaluate to n, to what m is, and to y
ConstantsEvaluate(env, m) ==
    /\ Eval(<<Word(N)>>, env) = N /\ Eval(<<Str(N)>>, env) = N
    /\ Eval(<<Word(M)>>, env) = m /\ Eval(<<Str(M)>>, env) = m
    /\ Eval(<<Word(Y)>>, env) = Y /\ Eval(<<Str(Y)>>, env) = Y

\* Without modules m is n and the symbol M, a tristate of value m, is y;
\* with modules both are m, and so is (Y || N) && (m && y)
TriStateEvaluates(env) ==
    /\ ModulesVal(env) = 0 =>
           /\ ConstantsEvaluate(env, N)
           /\ "M" \in Syms => Eval(<<Id("M")>>, env) = Y
    /\ ModulesVal(env) = 2 =>
           /\ ConstantsEvaluate(env, M)
           /\ "M" \in Syms =>
                  /\ Eval(<<Id("M")>>, env) = M
                  /\ Eval(YOrNAndMAndY, env) = M

EvalOf(text, res) == last.op = "eval" /\ last.text = text /\ last.res = res

\* C16: eval() of n, 'n', y, 'y' gives n, n, y, y; while MODULES is n, m and
\* 'm' give n and the symbol M gives y; once MODULES is y, m, 'm', M and
\* "(Y || N) && (m && y)" give m.
EvalTriState ==
    /\ kconf.file = "Keval" => TriStateEvaluates(Evaluated(Cache))
    /\ \A x \in {<<Word(M)>>, <<Str(M)>>} :
           (last.op = "eval" /\ last.text = x)
               => last.res = IF user_val["MODULES"] = Y THEN M ELSE N

\* With MODULES set to y, eval("(Y || N) && (m && y)") answered m
EvaluatedToM ==
    /\ user_val["MODULES"] = Y
    /\ EvalOf(YOrNAndMAndY, M)

\* The numbers the tests compare with, as they are written and what they
\* stand for
Numbers ==
    {<<<<"3", "8">>, 38>>, <<<<"3", "7">>, 37>>, <<<<"-", "1", "3", "8">>, 0 - 138>>,
     <<<<"0", "x", "2", "6">>, 38>>, <<<<"0", "x", "2", "5">>, 37>>,
     <<<<"5", "6">>, 56>>, <<<<"5", "5">>, 55>>,
     <<<<"0", "x", "3", "7">>, 55>>, <<<<"0", "x", "3", "6">>, 54>>,
     <<<<"0", "x", "0", "3", "7">>, 55>>}

\* The int and hex symbols of the Config and the numbers they hold
NumberSyms ==
    {p \in {<<"INT_37", 37>>, <<"HEX_0X37", 55>>, <<"HEX_37", 55>>} : p[1] \in Syms}

\* The relation op between two integers, as a tri-state value
Related(op, x, y) ==
    IF \/ op = "=" /\ x = y
       \/ op = "!=" /\ x # y
       \/ op = "<" /\ x < y
       \/ op = "<=" /\ x <= y
       \/ op = ">" /\ x > y
       \/ op = ">=" /\ x >= y
    THEN Y ELSE N

\* A symbol compared with a number, written quoted or not, and the number
\* compared with the symbol; a symbol compared with another symbol
ComparesByNumber(s, op, env) ==
    /\ \A n \in Numbers :
           /\ Eval(Rel(Id(s[1]), op, Word(n[1])), env) = Related(op, s[2], n[2])
           /\ Eval(Rel(Id(s[1]), op, Str(n[1])), env) = Related(op, s[2], n[2])
           /\ Eval(Rel(Word(n[1]), op, Id(s[1])), env) = Related(op, n[2], s[2])
    /\ \A r \in NumberSyms :
           Eval(Rel(Id(s[1]), op, Id(r[1])), env) = Related(op, s[2], r[2])

NumbersCompare(env) ==
    \A s \in NumberSyms, op \in RelOps : ComparesByNumber(s, op, env)

\* C17: in eval() the relations =, !=, <, <=, >, >= between an int or hex
\* symbol and a number, or another such symbol, hold exactly when they hold
\* of the numbers: a hex symbol is hexadecimal with and without 0x, leading
\* zeros do not count, quoted and unquoted numbers are alike, negative
\* numbers are below, and decimal and hexadecimal operands mix.
EvalComparesNumbers == NumbersCompare(Evaluated(Cache))

\* eval("HEX_0X37 = '0x037'") answered y
PaddedHexEqual ==
    EvalOf(Rel(Id("HEX_0X37"), "=", Str(<<"0", "x", "0", "3", "7">>)), Y)

\* Operands that are no numbers
NoNumbers == {Oops, Foo}

\* An int or hex symbol and an operand that is no number: the four order
\* relations are n on either side; = is n and != is y, as for the strings
NoOrderWithoutNumber(s, w, env) ==
    /\ \A op \in {"<", "<=", ">", ">="} :
           /\ Eval(Rel(Id(s), op, Word(w)), env) = N
           /\ Eval(Rel(Word(w), op, Id(s)), env) = N
           /\ Eval(Rel(Id(s), op, Str(w)), env) = N
    /\ Eval(Rel(Id(s), "=", Word(w)), env) = N
    /\ Eval(Rel(Id(s), "!=", Word(w)), env) = Y

\* Two strings that are no numbers are ordered as strings
StringsOrdered(env) ==
    /\ Eval(Rel(Str(<<"a", "a">>), "<", Str(<<"a", "b">>)), env) = Y
    /\ Eval(Rel(Str(<<"a", "a">>), ">", Str(<<"a", "b">>)), env) = N
    /\ Eval(Rel(Str(<<"a", "b">>), "<", Str(<<"a", "a">>)), env) = N
    /\ Eval(Rel(Str(<<"a", "b">>), ">", Str(<<"a", "a">>)), env) = Y
    /\ Eval(Rel(Str(<<"a", "a">>), "<=", Str(<<"a", "a">>)), env) = Y
    /\ Eval(Rel(Word(Oops), "=", Str(Oops)), env) = Y

NotANumber(env) ==
    /\ \A p \in NumberSyms, w \in NoNumbers : NoOrderWithoutNumber(p[1], w, env)
    /\ StringsOrdered(env)

\* C18: when one operand of <, <=, > or >= is an int or hex symbol and the
\* other is no number, eval() gives n for the four relations and both
\* orders; = and != compare the strings; two strings that are no numbers
\* are ordered lexicographically.
EvalWithoutNumber == kconf.file = "Keval" => NotANumber(Evaluated(Cache))

\* eval("oops >= INT_37") answered n
OopsNotOrdered == EvalOf(Rel(Word(Oops), ">=", Id("INT_37")), N)

\* The string, int and hex symbols of the Config
ValueSyms == {s \in Syms : ~IsTri(s)}

\* Constants other than n, m and y
OtherConstants == {Foo, Oops, S37, X37, <<"Y">>, <<"y", "y">>}

\* As an operand of !, && and ||, a symbol that is not bool or tristate is n
\* ...
BareSymbolIsN(s, env) ==
    /\ Eval(<<Id(s)>>, env) = N
    /\ Eval(<<Op("!"), Id(s)>>, env) = Y
    /\ Eval(<<Id(s), Op("||"), Word(M)>>, env) = Eval(<<Word(M)>>, env)
    /\ Eval(<<Id(s), Op("||"), Word(Y)>>, env) = Y
    /\ Eval(<<Id(s), Op("&&"), Word(Y)>>, env) = N

\* ... and so is a constant other than n, m and y, quoted or not
BareConstantIsN(c, env) ==
    /\ Eval(<<Str(c)>>, env) = N
    /\ Eval(<<Word(c)>>, env) = N
    /\ Eval(<<Str(c), Op("||"), Str(Foo)>>, env) = N

\* In a comparison a string symbol stands for its value, and an undefined
\* symbol for its name
ValueInComparison(s, env) ==
    SymOf(s).type = "string" =>
        /\ Eval(Rel(Id(s), "=", Str(env.val[s])), env) = Y
        /\ Eval(Rel(Id(s), "!=", Word(env.val[s])), env) = N
        /\ s = "Y_STRING" => Eval(Rel(Id(s), "=", Word(Y)), env) = Y

NameIsValue(c, env) ==
    /\ Eval(Rel(Str(c), "=", Word(c)), env) = Y
    /\ Eval(Rel(Word(c), "=", Word(c)), env) = Y
    /\ Eval(Rel(Word(c), "!=", Word(c \o <<"2">>)), env) = Y

OperandsEvaluate(env) ==
    /\ \A s \in ValueSyms : BareSymbolIsN(s, env) /\ ValueInComparison(s, env)
    /\ \A c \in OtherConstants : BareConstantIsN(c, env)
    /\ \A c \in {Oops, Foo} : NameIsValue(c, env)

\* C19: a string, int or hex symbol as an operand of !, && and || is n
\* whatever its value (Y_STRING is n, Y_STRING || m is what m is), and so is
\* every constant other than n, m and y; in a comparison the symbol stands
\* for its value (Y_STRING = y is y), and an undefined symbol for its name.
EvalOperands == kconf.file = "Keval" => OperandsEvaluate(Evaluated(Cache))

\* With modules, eval("Y_STRING || m") answered m while the value of
\* Y_STRING is "y"
StringOrM ==
    /\ EvalOf(<<Id("Y_STRING"), Op("||"), Word(M)>>, M)
    /\ cached_val["Y_STRING"] = Y

\* The user values and the cached values of the symbols and the choices
Standing ==
    <<user_val, ch_user_val, ch_user_mode,
      cached_val, cached_vis, ch_cached_sel, ch_cached_vis>>

\* C20: eval() of a malformed text (the empty text, a lone &, |, !, =, ( or
\* ), "(X", "X &&", "&& X", "X ||", "|| X") raises Kconfig_Syntax_Error and
\* leaves every user value and every computed value as it was.
MalformedRaises ==
    [][(last'.op = "eval" /\ last'.text \in EvalBad /\ eval(last'.text))
           => (last'.res = SyntaxError /\ UNCHANGED Standing)]_vars

\* eval("(X") raised the error in a Config where MODULES has the user value
\* y and its value is computed
RaisedOverComputed ==
    /\ last.op = "eval"
    /\ last.text = <<Op("("), Word(<<"X">>)>>
    /\ last.res = SyntaxError
    /\ user_val["MODULES"] = Y
    /\ cached_val["MODULES"] = Y

----------------------------------------------------------------------------
(* String literals *)

\* The number of backslashes that directly precede position i of b
RECURSIVE BackslashesBefore(_, _)
BackslashesBefore(b, i) ==
    IF i > 1 /\ b[i - 1] = BSL THEN 1 + BackslashesBefore(b, i - 1) ELSE 0

\* The character at position i is escaped: an odd number of backslashes
\* directly precedes it
Escaped(b, i) == BackslashesBefore(b, i) % 2 = 1

\* The positions of the quotes q of b that are not escaped
Closing(b, q) == {i \in 1..Len(b) : b[i] = q /\ ~Escaped(b, i)}

\* The characters of b without the backslashes that escape
RECURSIVE Literally(_, _)
Literally(b, i) ==
    IF i > Len(b) THEN <<>>
    ELSE IF b[i] = BSL /\ ~Escaped(b, i) THEN Literally(b, i + 1)
    ELSE <<b[i]>> \o Literally(b, i + 1)

\* The text after the opening quote of the text tokenized last
LexBody == Tail(last.text)

\* C21: the token of a quoted string is its content with every escaping
\* backslash removed and the character after it taken as it is, the other
\* quote being an ordinary character; a string without a closing quote that
\* is not escaped raises Kconfig_Syntax_Error.
StringLiteralLexed ==
    last.op = "tokenize" =>
        /\ Closing(LexBody, Head(last.text)) = {} => ~last.ok
        /\ Closing(LexBody, Head(last.text)) = {Len(LexBody)}
               => /\ last.ok
                  /\ last.toks = <<Str(Literally(Take(LexBody, Len(LexBody) - 1), 1))>>

\* "\\" gave one backslash
EscapedBackslashLexed ==
    /\ last.op = "tokenize"
    /\ last.text = <<DQ, BSL, BSL, DQ>>
    /\ last.ok
    /\ last.toks = <<Str(<<BSL>>)>>

----------------------------------------------------------------------------
(* Comparisons of tri-state values *)

\* The pairs x, y with x < y in the order n < m < y
TriBelow == {<<N, M>>, <<N, Y>>, <<M, Y>>}

\* What a comparison is to answer on x and y
TriExpected(fn, x, y) ==
    CASE fn = "tri_less" -> <<x, y>> \in TriBelow
      [] fn = "tri_less_eq" -> <<x, y>> \in TriBelow \/ x = y
      [] fn = "tri_greater" -> <<y, x>> \in TriBelow
      [] fn = "tri_greater_eq" -> <<y, x>> \in TriBelow \/ x = y

\* C22: on each of the nine pairs of n, m and y, tri_less, tri_less_eq,
\* tri_greater and tri_greater_eq answer True exactly when x < y, x <= y,
\* x > y and x >= y in the order n < m < y.
TriComparisonsFollowOrder ==
    last.op \in TriFunctions => last.res = TriExpected(last.op, last.x, last.y)

\* tri_less_eq("m", "y") answered True
MLessEqY ==
    /\ last.op = "tri_less_eq"
    /\ last.x = M
    /\ last.y = Y
    /\ last.res

----------------------------------------------------------------------------
(* Dependent sets *)

\* Where a symbol mentions other symbols: its prompt conditions, its
\* defaults, its ranges, and the selects and implies that point at it
Mentioned(t) ==
    LET sym == SymOf(t)
    IN  UNION ({ExprSyms(sym.prompts[i]) : i \in 1..Len(sym.prompts)}
               \cup {ExprSyms(sym.def_exprs[i][j]) :
                        i \in 1..Len(sym.def_exprs), j \in 1..2}
               \cup {ExprSyms(sym.ranges[i][j]) : i \in 1..Len(sym.ranges), j \in 1..3}
               \cup {ExprSyms(sym.rev_dep), ExprSyms(sym.weak_rev_dep)})

\* ... and where a choice does: its prompt conditions and the conditions of
\* its defaults
MentionedByChoice(ch) ==
    LET c == ChoiceOf(ch)
    IN  UNION ({ExprSyms(c.prompts[i]) : i \in 1..Len(c.prompts)}
               \cup {ExprSyms(c.def_exprs[i][2]) : i \in 1..Len(c.def_exprs)})

\* The value or the visibility of t is computed from s
ReadsDirectly(t, s) ==
    \/ s \in Mentioned(t)
    \/ /\ IsChoiceSym(t)
       /\ \/ s \in MentionedByChoice(SymOf(t).choice)
          \/ IsChoiceSym(s) /\ SymOf(s).choice = SymOf(t).choice

\* t is reached from s in at most n steps of ReadsDirectly
RECURSIVE ReachedIn(_, _, _)
ReachedIn(t, s, n) ==
    /\ n > 0
    /\ \/ ReadsDirectly(t, s)
       \/ \E u \in Syms \ {s, t} : ReadsDirectly(u, s) /\ ReachedIn(t, u, n - 1)

\* The symbols whose value or visibility can change with the value of s
CanChangeWith(s) == {t \in Syms \ {s} : ReachedIn(t, s, Cardinality(Syms))}

\* The dependent sets the tests expect
ExpectedDependent(s) ==
    CASE s = "D" -> {"D1", "D2", "D3", "D4", "D5", "D6", "D7"}
      [] s \in {"A", "B", "C"} -> {"A", "B", "C"} \ {s}
      [] s = "S" -> {"A", "B", "C"}
      [] s = "CHAIN_1" -> Range(Chain) \ {s}

----------------------------------------------------------------------------
(* The constants n, m and y *)

\* C24: the constants n, m and y are defined, have no definition location
\* and keep the values n, m and y: is_modifiable() is False, the bounds are
\* None and no value is assignable, and no set_user_value(),
\* unset_user_values() or load_config() changes their value.
ConstantsImmutable ==
    /\ \A s \in Syms : IsSpecial(s) => GetValue(s, Cache) = <<s>>
    /\ (last.op = "get_bounds" /\ IsSpecial(last.sym)) =>
           /\ last.defined
           /\ last.locations = <<>>
           /\ ~last.modifiable
           /\ last.low = None
           /\ last.high = None
           /\ last.vals = <<>>

\* y was assigned n and its value is y
ConstantAssigned ==
    /\ last.op = "set_user_value"
    /\ last.sym = "y"
    /\ last.val = N
    /\ GetValue("y", Cache) = Y

----------------------------------------------------------------------------
(* Bounds and assignable values *)

\* The values from low to high in the order n, m, y
TriRun(low, high) ==
    [i \in 1..(TriNum(high) - TriNum(low) + 1) |-> TriStr(TriNum(low) + i - 1)]

\* The bounds verify_bounds expects of a symbol, <<>> for None
ExpectedBounds(s) ==
    CASE s \in {"Y_VISIBLE_BOOL", "Y_VISIBLE_TRISTATE", "M_VISIBLE_BOOL",
                "N_IMPLIED_BOOL", "N_IMPLIED_TRISTATE", "M_IMPLIED_BOOL",
                "M_IMPLIED_TRISTATE", "Y_IMPLIED_BOOL", "Y_IMPLIED_TRISTATE"}
             -> <<N, Y>>
      [] s = "M_VISIBLE_TRISTATE" -> <<N, M>>
      [] s = "M_SELECTED_TRISTATE" -> <<M, Y>>
      [] s \in {"n", "m", "y", "Y_SELECTED_BOOL", "M_SELECTED_BOOL",
                "Y_SELECTED_TRISTATE", "M_SELECTED_M_VISIBLE_TRISTATE", "STRING",
                "INT", "HEX"}
             -> <<>>

Tested == DOMAIN Kbounds \ {"MODULES", "N_SETTER", "M_SETTER", "Y_SETTER"}

NothingAssigned == \A s \in Syms : user_val[s] = None

\* C26: the lower bound is None exactly when the upper bound is, and exactly
\* when no value is assignable; otherwise the assignable values are the run
\* of n, m, y from the lower to the upper bound. A bool or tristate symbol is
\* modifiable exactly when it has bounds; string, int and hex symbols and
\* the constants have none; an imply does not narrow the bounds.
BoundsAgree ==
    last.op = "get_bounds" =>
        /\ (last.low = None) <=> (last.high = None)
        /\ (last.low = None) <=> (last.vals = <<>>)
        /\ last.low # None => last.vals = TriRun(last.low, last.high)
        /\ IsTri(last.sym) => (last.modifiable <=> last.low # None)
        /\ (~IsTri(last.sym) \/ IsSpecial(last.sym)) => last.low = None
        /\ (SymOf(last.sym).weak_rev_dep # ConstN /\ cached_vis[last.sym] = Y)
               => (last.low = N /\ last.high = Y)
        /\ (NothingAssigned /\ last.sym \in Tested) =>
               IF ExpectedBounds(last.sym) = <<>> THEN last.low = None
               ELSE <<last.low, last.high>> = ExpectedBounds(last.sym)

\* The tristate selected to m can be given m and y
SelectedToMBounds ==
    /\ last.op = "get_bounds"
    /\ last.sym = "M_SELECTED_TRISTATE"
    /\ last.vals = <<M, Y>>

----------------------------------------------------------------------------
(* Two instances *)

Other(c) == CHOOSE d \in Instances : d # c

\* What an instance holds: the user values of its symbols and choices, and
\* what is cached for them
Held(c) ==
    [user |-> [s \in Syms \cap kconf.config[c] |-> user_val[s]],
     ch_user |-> [ch \in Choices \cap kconf.config[c] |->
                     <<ch_user_val[ch], ch_user_mode[ch]>>],
     cached |-> [s \in Syms \cap kconf.config[c] |-> <<cached_val[s], cached_vis[s]>>],
     ch_cached |-> [ch \in Choices \cap kconf.config[c] |->
                       <<ch_cached_sel[ch], ch_cached_vis[ch]>>]]

\* The step is a call on the instance c that assigns, unsets or loads
Changes(c) ==
    \/ /\ last'.op = "set_user_value"
       /\ last'.sym \in kconf.config[c]
       /\ set_user_value(last'.sym, Y)
    \/ /\ last'.op = "unset_user_value"
       /\ \E s \in Syms \cap kconf.config[c] : unset_user_value(s)
    \/ /\ last'.op = "load_config"
       /\ last'.config = c
       /\ \E r \in BOOLEAN : load_config_of(c, <<SetLine("BOOL", Y)>>, r)

\* The entries of the symbols and choices of c
EntriesOf(c) ==
    {e \in ({"val", "vis"} \X Syms) \cup ({"sel", "cvis"} \X Choices) :
        e[2] \in kconf.config[c]}

\* Whatever an answer of c is computed from is held by c
ComputedFromOwn(c) == \A e \in EntriesOf(c) : Computed({e}, NoCache) \subseteq EntriesOf(c)

----------------------------------------------------------------------------
(* The mode of a choice and the values of its members *)

\* The last call assigned v to a member of a tristate choice whose
\* visibility is vis
AssignedToMember(v, vis, env) ==
    /\ last.op = "set_user_value"
    /\ last.val = v
    /\ IsChoiceSym(last.sym)
    /\ ChoiceOf(SymOf(last.sym).choice).type = "tristate"
    /\ env.cvis[SymOf(last.sym).choice] = vis

\* The value of the member assigned last, the mode of its choice and whether
\* the member is the selection
AfterAssignment(value, mode, selected, env) ==
    /\ env.val[last.sym] = value
    /\ ComputeMode(SymOf(last.sym).choice, env) = mode
    /\ selected => SelOf(env.sel[SymOf(last.sym).choice]) = last.sym

MModeSelectionIn(env) ==
    /\ (ModulesVal(env) = 2 /\ AssignedToMember(M, Y, env))
           => AfterAssignment(M, M, FALSE, env)
    /\ (ModulesVal(env) = 2 /\ AssignedToMember(Y, Y, env))
           => AfterAssignment(Y, Y, TRUE, env)
    /\ AssignedToMember(M, M, env) => AfterAssignment(M, M, FALSE, env)
    /\ AssignedToMember(N, M, env) => AfterAssignment(N, M, FALSE, env)
    /\ AssignedToMember(Y, M, env) => AfterAssignment(M, M, FALSE, env)

\* C27: with modules, m assigned to a member of a tristate choice of
\* visibility y gives the member the value m and the choice the mode m, and
\* y assigned to it gives the member the value y, the choice the mode y and
\* makes the member the selection; in a tristate choice of visibility m a
\* member takes m and n, y assigned to it gives m, and the mode is m.
MModeSelection == MModeSelectionIn(Evaluated(Cache))

\* T_1 was assigned y after T_2 had been assigned m: the mode is y again and
\* T_1 is the selection
SelectedAfterMMode ==
    /\ last.op = "set_user_value"
    /\ last.sym = "T_1"
    /\ last.val = Y
    /\ user_val["T_2"] = M
    /\ GetSelection("TRISTATE", Cache) = "T_1"
    /\ ComputeMode("TRISTATE", Evaluated(Cache)) = Y

----------------------------------------------------------------------------
(* The mode of a choice without user values *)

NoMemberAssigned(ch) == \A s \in Range(ChoiceOf(ch).syms) : user_val[s] = None

\* The mode of a choice that is visible and not optional
ModeOfVisible(ch, env) ==
    LET mode == ComputeMode(ch, env)
    IN  (~ChoiceOf(ch).optional /\ env.cvis[ch] # N) =>
            /\ mode # N
            /\ NoMemberAssigned(ch) =>
                   mode = IF ChoiceOf(ch).type = "tristate" /\ ModulesVal(env) = 2
                          THEN M ELSE Y

ModeOfHidden(ch, env) == env.cvis[ch] = N => ComputeMode(ch, env) = N

\* C28 as stated: a visible choice that is not optional is never in mode n:
\* without user values its mode is y if it is bool, and if it is tristate y
\* without modules and m with modules; an optional choice without user
\* selection has mode n; a choice of visibility n has mode n.
ModeOfChoiceAsStated ==
    \A ch \in Choices :
        /\ ModeOfVisible(ch, Evaluated(Cache))
        /\ (ChoiceOf(ch).optional /\ ch_user_val[ch] = Nil)
               => ComputeMode(ch, Evaluated(Cache)) = N
        /\ ModeOfHidden(ch, Evaluated(Cache))

\* C28, amended: a visible choice that is not optional is never in mode n:
\* without user values its mode is y if it is bool, and if it is tristate y
\* without modules and m with modules; an optional choice whose members
\* have no user value has mode n; a choice of visibility n has mode n.
ModeOfChoice ==
    \A ch \in Choices :
        /\ ModeOfVisible(ch, Evaluated(Cache))
        /\ (ChoiceOf(ch).optional /\ NoMemberAssigned(ch))
               => ComputeMode(ch, Evaluated(Cache)) = N
        /\ ModeOfHidden(ch, Evaluated(Cache))

\* With modules, the optional tristate choice is in mode n after the user
\* value of a member was unset: no member has a user value
OptionalUnassigned ==
    /\ "TRISTATE_OPT" \in Choices
    /\ last.op = "unset_user_value"
    /\ user_val["MODULES"] = Y
    /\ NoMemberAssigned("TRISTATE_OPT")
    /\ ComputeMode("TRISTATE_OPT", Evaluated(Cache)) = N

----------------------------------------------------------------------------
(* One member selected *)

\* Symbol.is_choice_selection
IsChoiceSelection(s, env) == IsChoiceSym(s) /\ SelOf(env.sel[SymOf(s).choice]) = s

OneSelectedIn(env) ==
    /\ \A ch \in Choices :
           /\ SelOf(env.sel[ch]) \in Range(ChoiceOf(ch).syms) \cup {Nil}
           /\ ComputeMode(ch, env) = Y =>
                  \A s \in Range(ChoiceOf(ch).syms) :
                      /\ env.val[s] = Y => s = SelOf(env.sel[ch])
                      /\ s # SelOf(env.sel[ch]) => env.val[s] = N
    /\ (/\ last.op = "set_user_value"
        /\ last.val = Y
        /\ IsChoiceSym(last.sym)
        /\ ComputeMode(SymOf(last.sym).choice, env) = Y)
           => \A s \in Range(ChoiceOf(SymOf(last.sym).choice).syms) \ {last.sym} :
                  env.val[s] = N /\ ~IsChoiceSelection(s, env)

\* C29: in mode y at most one member of a choice has the value y, it is the
\* member get_selection() answers, and every other member has the value n;
\* after y was assigned to another member, the member selected before has
\* the value n and is not the selection; get_selection() answers None or a
\* member of the choice.
OneSelected == OneSelectedIn(Evaluated(Cache))

\* B_2 was selected before and B_1 was assigned y: B_2 has the value n
PreviousDeselected ==
    /\ last.op = "set_user_value"
    /\ last.sym = "B_1"
    /\ last.val = Y
    /\ user_val["B_2"] = Y
    /\ GetValue("B_2", Cache) = N
    /\ GetSelection("BOOL", Cache) = "B_1"

=============================================================================
